---- MODULE Spec2Model ----
(***************************************************************************)
(* A model of the solana-bot-server repository: the swap executor's retry  *)
(* policy (executeSwap), the webhook handlers that claim a signal before   *)
(* executing it, and the solvency / sizing / recording logic of            *)
(* executeTradeFromSignal.                                                 *)
(*                                                                         *)
(* The repository holds several variants of the same files.  Each variant  *)
(* that is modelled has its own variables and its own specification:       *)
(*   SpecExec   executeSwap of part_018 and of part_012, one call          *)
(*   SpecSig    the route handler of src/nexagent-signal.ts, which calls   *)
(*              executeSwap of part_018, two requests in flight            *)
(*   SpecClaim  the handlers of src/index.ts (tryClaimSignal) and of       *)
(*              part_005 (claimRef.create), several requests in flight     *)
(*   SpecTrade  executeTradeFromSignal of src/tradeExecutor.ts, one call   *)
(*   SpecTradePair  the same, two calls in flight against one wallet       *)
(*   SpecConfirm, SpecQuote, SpecET, SpecDecimals, SpecResend,             *)
(*   SpecValidQuote  one function each: waitForConfirmation (part_018),    *)
(*              getFreshQuote, executeTrade (part_015 to part_017), the    *)
(*              decimals resolver, the resend rounds of part_011,          *)
(*              getValidQuote (part_019)                                   *)
(*   SpecGuard  the handlers of part_002 and part_004, two requests        *)
(*   SpecProcessed  the second route of src/index.ts and part_009, four    *)
(*              requests                                                   *)
(* Every specification leaves the variables of the others at their idle    *)
(* values.                                                                 *)
(***************************************************************************)
EXTENDS Integers, Sequences, FiniteSets, TLC

VARIABLES
    swap,           \* SpecExec: the activation of one executeSwap call
    enableSells,    \* SpecSig: ENABLE_SELLS, read from the environment at start
    signal_events,  \* SpecSig: collection "signal_events": key -> document
    trades,         \* SpecSig: collection "trades": the documents added
    req,            \* SpecSig: per request, the handler's activation
    handler,        \* SpecClaim: which handler serves the route (index / part_005)
    botStatus,      \* settings/bot-settings.botStatus
    solBalance,     \* the wallet's SOL balance, in lamports
    needsAta,       \* the wallet has no token account for the token yet
    tokenBalance,   \* the wallet's token balance, in raw units
    heliusApiKey,   \* SOLANA_RPC_ENDPOINT carries an api-key (Helius sender in use)
    trade,          \* per request, the activation of executeTradeFromSignal
    positions,      \* collection "positions": the documents upserted
    hreq,           \* SpecClaim: per request, the handler's activation
    signals,        \* collection "signals" (index.ts): signal_id -> document
    ingest_dedup,   \* collection "ingest_dedup" (part_005): idKey -> document
    confirm,        \* SpecConfirm: the activation of one waitForConfirmation call
    chainTx,        \* SpecConfirm: what the cluster holds for the signature
    fresh,          \* SpecQuote: the activation of one getFreshQuote call
    etrade,         \* SpecET: per call, the activation of executeTrade
    etPosition,     \* SpecET: the document positions/<signalId>
    dec,            \* SpecDecimals: the activation of the resolver getTokenDecimals
    decimalCache,   \* SpecDecimals: decimalCache, mint -> decimals
    resend,         \* SpecResend: the resend rounds of executeTradeFromSignal (part_011)
    validQuote,     \* SpecValidQuote: the activation of one getValidQuote call (part_019)
    wreq,           \* per request, the activation of a webhook handler that guards by
                    \* reading first (part_002, part_004, index.ts second variant, part_009)
    mem             \* the process's memory: seenInMemory, processedSignals

execVars == <<swap>>
sigVars == <<enableSells, signal_events, trades, req>>
etVars == <<etrade, etPosition>>
envVars == <<botStatus, solBalance, needsAta, tokenBalance, heliusApiKey>>
decVars == <<dec, decimalCache>>
hookVars == <<wreq, mem>>
callVars == <<confirm, chainTx, fresh, etVars, decVars, resend, validQuote, hookVars>>
claimVars == <<handler, envVars, callVars, trade, positions, hreq, signals, ingest_dedup>>
vars == <<swap, enableSells, signal_events, trades, req, handler, botStatus, solBalance,
          needsAta, tokenBalance, heliusApiKey, trade, positions, hreq, signals, ingest_dedup,
          confirm, chainTx, fresh, etrade, etPosition, dec, decimalCache, resend,
          validQuote, wreq, mem>>

Max(a, b) == IF a >= b THEN a ELSE b
Min(a, b) == IF a <= b THEN a ELSE b

\* An optional value: <<>> is undefined, <<v>> is v.  Coalesce(o, d) is o ?? d.
Coalesce(o, d) == IF o = <<>> THEN d ELSE o[1]

(***************************************************************************)
(* executeSwap: the retry policy of part_018 and of part_012.              *)
(***************************************************************************)

DEFAULT_SLIPPAGE_BPS == 50
CUP_DEFAULT == 50000

\* An error thrown by an attempt: the attempt that threw it, and which of the
\* classifier substrings its message holds.  A message may hold several.
ErrorClasses == {"SimFail", "Expiry", "J1788", "Q400"}

\* msg.includes("Simulation failed") || isJup1771or6001(msg)
isSimFailMsg(e) == "SimFail" \in e.cls
isStaleOrExpiredError(e) == "Expiry" \in e.cls
isJup1788(e) == "J1788" \in e.cls
isQuote400(e) == "Q400" \in e.cls

\* Math.round(x * 1.2) for an integer x: floor(1.2 x + 1/2)
RoundTimes12(x) == (12 * x + 5) \div 10

\* part_018, attempt #2 after 1771/1788/expiry
BumpSlip(baseSlip) == baseSlip + 50
\* Math.round(x * 0.8): the bump with the factor the wrong side of 1
BumpCupScaledDown(baseCup) == (8 * baseCup + 5) \div 10
BumpCup(baseCup) == Max(RoundTimes12(baseCup), baseCup + 5000)
\* part_018, attempt #2 after a quote 400
Q400Slip(baseSlip) == baseSlip + 25
\* part_018, attempt #3
Bump2Slip(slip) == slip + 25
Bump2Cup(cup) == cup + 5000
\* part_012, the one retry
BumpSlip012(slip) == slip + 50
BumpCup012(cup) == RoundTimes12(cup)

TryOnceArgs(slip, cup, shared, direct, restrict) ==
    [slippageBps |-> slip, cuPriceMicroLamports |-> cup,
     useSharedAccounts |-> shared, directOnly |-> direct,
     restrictIntermediates |-> restrict]

\* tryOnce's result: the signature is that of the transaction of attempt n.
ExecResult(n, a) ==
    [signature |-> n, usedSlippageBps |-> a.slippageBps,
     usedSharedAccounts |-> a.useSharedAccounts,
     routeDirectOnly |-> a.directOnly,
     restrictIntermediates |-> a.restrictIntermediates]

NoOut == [kind |-> "none"]

IdleSwap ==
    [variant |-> "none", stage |-> "idle", baseSlip |-> 0, baseCup |-> 0,
     shared |-> TRUE, isSimFail |-> FALSE, tries |-> <<>>, out |-> NoOut]

\* an attempt that builds on the quote of attempt #1 instead of asking for one
PendingOnFirstQuote(n, a) == [a |-> a, quote |-> 1, st |-> "pending", err |-> {}]
\* tryOnce number n in flight: it begins with its own jupQuote request, n
Pending(n, a) == [a |-> a, quote |-> n, st |-> "pending", err |-> {}]

\* The call up to its first await: baseSlip, baseCup and attempt #1.
StartSwap(variant, args) ==
    LET slip == Coalesce(args.slippageBps, DEFAULT_SLIPPAGE_BPS)
        cup == Coalesce(args.cuPriceMicroLamports, CUP_DEFAULT)
        shared == Coalesce(args.useSharedAccounts, TRUE)
    IN  [variant |-> variant,
         stage |-> IF variant = "part_018" THEN "attempt1" ELSE "once",
         baseSlip |-> slip, baseCup |-> cup, shared |-> shared,
         isSimFail |-> FALSE,
         tries |-> <<Pending(1, TryOnceArgs(slip, cup, shared, FALSE, FALSE))>>,
         out |-> NoOut]

Running(x) == x.stage \in {"attempt1", "retryQ400", "retry1", "retry2", "once", "retry"}

Settle(x, st, err) ==
    [x.tries EXCEPT ![Len(x.tries)] = [@ EXCEPT !.st = st, !.err = err]]

\* The attempt in flight resolves: executeSwap returns its result.
SwapResolved(x) ==
    LET n == Len(x.tries)
    IN  [x EXCEPT !.stage = "returned",
                  !.tries = Settle(x, "resolved", {}),
                  !.out = [kind |-> "result", value |-> ExecResult(n, x.tries[n].a)]]

Retry(x, tries, stage, a) ==
    [x EXCEPT !.stage = stage, !.tries = Append(tries, Pending(Len(tries) + 1, a))]

\* `throw e` where the error of the latest attempt is e2
ThrowFirstError(x, tries, e) ==
    [x EXCEPT !.stage = "thrown", !.tries = tries,
              !.out = [kind |-> "error", value |-> [e EXCEPT !.at = 1, !.cls = tries[1].err]]]
Throw(x, tries, e) ==
    [x EXCEPT !.stage = "thrown", !.tries = tries, !.out = [kind |-> "error", value |-> e]]

\* A rejection of `return await tryOnce(...)` that no inner try encloses (the
\* quote-400 retry, attempt #3, part_012's retry) leaves executeSwap as it is.
UncaughtRetried(x, tries, e) ==
    IF Len(tries) < 5 THEN Retry(x, tries, x.stage, tries[Len(tries)].a) ELSE Throw(x, tries, e)
Uncaught(x, tries, e) == Throw(x, tries, e)

\* attempt #3 with shared accounts switched back on
Retry2ArgsSharedAgain(last) ==
    TryOnceArgs(Bump2Slip(last.slippageBps), Bump2Cup(last.cuPriceMicroLamports),
                TRUE, TRUE, TRUE)
\* Attempt #3 - direct-only + restricted + more bumps
Retry2Args(last) ==
    TryOnceArgs(Bump2Slip(last.slippageBps), Bump2Cup(last.cuPriceMicroLamports),
                FALSE, TRUE, TRUE)

\* The attempt in flight rejects with e: the catch block that encloses it runs.
SwapRejected(x, e) ==
    LET tries == Settle(x, "rejected", e.cls)
        last == x.tries[Len(x.tries)].a
    IN  CASE x.stage = "attempt1" ->
               IF isQuote400(e)
               THEN Retry([x EXCEPT !.isSimFail = isSimFailMsg(e)], tries, "retryQ400",
                          TryOnceArgs(Q400Slip(x.baseSlip), x.baseCup, x.shared, TRUE, TRUE))
               ELSE IF isSimFailMsg(e) \/ isStaleOrExpiredError(e) \/ isJup1788(e)
               THEN Retry([x EXCEPT !.isSimFail = isSimFailMsg(e)], tries, "retry1",
                          TryOnceArgs(BumpSlip(x.baseSlip), BumpCup(x.baseCup),
                                      FALSE, FALSE, FALSE))
               ELSE Throw(x, tries, e)
          [] x.stage = "retry1" ->
               IF isJup1788(e) \/ x.isSimFail
               THEN Retry(x, tries, "retry2", Retry2Args(last))
               ELSE Throw(x, tries, e)
          [] x.stage = "once" ->
               IF isSimFailMsg(e)
               THEN Retry(x, tries, "retry",
                          TryOnceArgs(BumpSlip012(x.baseSlip), BumpCup012(x.baseCup),
                                      x.shared, FALSE, FALSE))
               ELSE Throw(x, tries, e)
          [] OTHER -> Uncaught(x, tries, e)

\* ---- SpecExec: one call, its arguments drawn from bounded sets ----

SlipSteps == 2
CupSteps == 3
SlippageInputs == {<<>>} \cup {<<25 * k>> : k \in 0..SlipSteps}
\* fees of a few micro-lamports, where Math.round(1.2 x) = x, and larger ones
CupInputs ==
    {<<>>} \cup {<<k>> : k \in 0..CupSteps} \cup {<<12500 * k + k>> : k \in 1..CupSteps}
SharedInputs == {<<>>, <<FALSE>>}
Variants == {"part_018", "part_012"}

ExecArgs == [slippageBps : SlippageInputs, cuPriceMicroLamports : CupInputs,
             useSharedAccounts : SharedInputs]

\* An error: where it was thrown, by which attempt (tryOnce), its classes.
Err(src, at, cls) == [src |-> src, at |-> at, cls |-> cls]
NoErr == Err("none", 0, {})
Errors(n) == {Err("tryOnce", n, c) : c \in SUBSET ErrorClasses}

(***************************************************************************)
(* src/nexagent-signal.ts: the route handler.  UI amounts (SOL, tokens)    *)
(* are counted in units of 1e-10, a tenth of the 1e-9 grid that toFixed(9) *)
(* and toLamports round to.  The handler is modelled from the point where  *)
(* the payload has been normalized and validateRequired has accepted it.   *)
(***************************************************************************)

SOL_MINT == "SOL"
TOKEN_MINT == "TOK"
\* FEE_RESERVE_SOL, 0.02
FEE_RESERVE_SOL == 200000000
\* if (desiredUi < 0.01)
MIN_BUY_UI == 100000000
\* if (desiredUi < 0.1)
MIN_SELL_UI == 1000000000
\* PRIORITY_FEE_MICRO_LAMPORTS || 0
CUP == 0
\* MAX_SOL_PER_TRADE, MAX_TOKEN_UI_PER_TRADE: unset in the environment
MAX_SOL_PER_TRADE == "Infinity"
MAX_TOKEN_UI_PER_TRADE == "Infinity"
\* decimals of TOKEN_MINT as getMintDecimals reads them from the chain
MintDecimals == 6

RECURSIVE Pow10(_)

CapAt(x, cap) == IF cap = "Infinity" THEN x ELSE Min(x, cap)

\* Number(x.toFixed(9)): x rounded to the 1e-9 grid
RoundTo9(x) == ((x + 5) \div 10) * 10
\* toLamports(sol) = Math.round(sol * LAMPORTS_PER_SOL)
toLamports(sol) == (sol + 5) \div 10
Pow10(n) == IF n <= 0 THEN 1 ELSE 10 * Pow10(n - 1)
\* Math.round(ui * 10 ** decimals), for decimals in 5..9
ToMinor(ui, decimals) ==
    LET q == Pow10(10 - decimals) IN (ui + q \div 2) \div q

\* hashEventKey: the hash is taken to be injective, so a key is its parts.
hashEventKey(signalId, dir, inputMint, outputMint, amountUi) ==
    [signalId |-> signalId, dir |-> dir, inputMint |-> inputMint,
     outputMint |-> outputMint, amountUi |-> amountUi]

\* The balance-aware sizing of a BUY paid in SOL, for wallet balance solBal.
SizeBuy(amount, solBal) ==
    LET desired == CapAt(amount, MAX_SOL_PER_TRADE)
        maxSpendable == Max(0, solBal - FEE_RESERVE_SOL)
    IN  IF desired > maxSpendable THEN maxSpendable ELSE desired

\* The sizing of a SELL, for token balance bal.
SizeSell(amount, bal) ==
    LET desired == CapAt(amount, MAX_TOKEN_UI_PER_TRADE)
    IN  IF desired > bal THEN bal ELSE desired

\* Idempotency key uses the (possibly clipped) amount
EventKeyOf(body, amount) ==
    hashEventKey(body.signalId, body.dir, body.inputMint, body.outputMint,
                 <<RoundTo9(amount)>>)
\* the key of the "too small" record: no amountUi
SkipKeyOf(body) ==
    hashEventKey(body.signalId, body.dir, body.inputMint, body.outputMint, <<>>)

NoKey == hashEventKey("", "", "", "", <<>>)
\* An HTTP response: the status, what the JSON body says, and the signature or
\* the error it carries.
Resp(status, kind, signature, error) ==
    [status |-> status, kind |-> kind, signature |-> signature, error |-> error]
NoResp == Resp(0, "none", 0, NoErr)
\* A document of signal_events: status and data ({reason} | {signature} | {error}).
EventDoc(status, reason, signature, error) ==
    [status |-> status, reason |-> reason, signature |-> signature, error |-> error]

\* waitForConfirmation before it is called.  reads holds, per RPC read made,
\* the call, Date.now() - started when it was issued, and what it showed.
IdleConfirm ==
    [pc |-> "idle", timeoutMs |-> 0, now |-> 0, reads |-> <<>>, error |-> ""]

\* getFreshQuote before it is called.  responses holds what each quoteGet
\* request gave; quote is the index of the request whose quote was returned.
IdleFresh ==
    [pc |-> "idle", action |-> "", slippageBps |-> 0, attempts |-> 0,
     responses |-> <<>>, quote |-> 0, error |-> ""]

\* The document positions/<signalId>: absent, open or closed, with the number
\* of writes that opened it and that closed it.
PositionDoc(status, opens, closes) == [status |-> status, opens |-> opens, closes |-> closes]

EtIdle ==
    /\ etrade = <<>>
    /\ etPosition = PositionDoc("none", 0, 0)

\* executeTradeFromSignal (part_011) before the call.  fees and txs hold, per
\* round, the compute-unit price used and what became of the transaction.
IdleResend ==
    [pc |-> "idle", action |-> "", round |-> 0, fees |-> <<>>, txs |-> <<>>, finalSig |-> 0,
     records |-> <<>>, position |-> "none", error |-> ""]

\* getValidQuote (part_019) before the call.
IdleValidQuote == [pc |-> "idle", retries |-> 0, requests |-> <<>>, quote |-> 0]
\* No request received, nothing remembered by the process.
IdleMem == [seenInMemory |-> {}, processedSignals |-> <<>>, accepted |-> <<>>]
HookIdle ==
    /\ validQuote = IdleValidQuote
    /\ wreq = <<>>
    /\ mem = IdleMem

\* The resolver before a call, its cache empty.
IdleDec ==
    [pc |-> "idle", backup |-> FALSE, mintAddress |-> "", calls |-> 0, tried |-> <<>>,
     d |-> <<>>, error |-> ""]
DecIdle ==
    /\ dec = IdleDec
    /\ decimalCache = <<>>

CallIdle ==
    /\ confirm = IdleConfirm
    /\ chainTx = "none"
    /\ fresh = IdleFresh
    /\ EtIdle
    /\ DecIdle
    /\ resend = IdleResend
    /\ HookIdle

EnvIdle ==
    /\ handler = "none"
    /\ botStatus = "OFF"
    /\ solBalance = 0
    /\ needsAta = FALSE
    /\ tokenBalance = 0
    /\ heliusApiKey = FALSE
    /\ trade = <<>>
    /\ positions = {}
    /\ hreq = <<>>
    /\ signals = <<>>
    /\ ingest_dedup = <<>>

ClaimIdle == CallIdle /\ EnvIdle

SigIdle ==
    /\ enableSells = FALSE
    /\ signal_events = <<>>
    /\ trades = {}
    /\ req = <<>>

ExecInit ==
    /\ swap = IdleSwap
    /\ SigIdle
    /\ ClaimIdle

ExecuteSwap ==
    /\ swap.stage = "idle"
    /\ \E v \in Variants, args \in ExecArgs : swap' = StartSwap(v, args)
    /\ UNCHANGED <<sigVars, claimVars>>

TryOnceResolves ==
    /\ Running(swap)
    /\ swap' = SwapResolved(swap)
    /\ UNCHANGED <<sigVars, claimVars>>

TryOnceRejects ==
    /\ Running(swap)
    /\ \E e \in Errors(Len(swap.tries)) : swap' = SwapRejected(swap, e)
    /\ UNCHANGED <<sigVars, claimVars>>

ExecNext == ExecuteSwap \/ TryOnceResolves \/ TryOnceRejects

SpecExec == ExecInit /\ [][ExecNext]_vars

\* C3: in executeSwap (part_018 and the two-attempt executeSwap of part_012),
\* of any two consecutive attempts of one call the later one's slippageBps and
\* cuPriceMicroLamports are each >= the earlier one's, for every non-negative
\* base slippage and base fee and every sequence of failure classes.
Escalates(tries) ==
    \A i \in 1..(Len(tries) - 1) :
        /\ tries[i + 1].a.slippageBps >= tries[i].a.slippageBps
        /\ tries[i + 1].a.cuPriceMicroLamports >= tries[i].a.cuPriceMicroLamports
C3_RetryEscalationMonotonic ==
    (swap.baseSlip >= 0 /\ swap.baseCup >= 0) => Escalates(swap.tries)
C3_Witness ==
    /\ swap.variant = "part_018"
    /\ swap.stage = "retry2"
    /\ swap.baseCup > 25000
    /\ swap.tries[3].a.cuPriceMicroLamports > swap.tries[2].a.cuPriceMicroLamports

\* C4: executeSwap (part_018) performs at most 3 tryOnce attempts per call, one
\* after another (an attempt starts only after every earlier one was rejected),
\* and ends only by returning the result of a resolved attempt or by throwing
\* after a rejected one; no attempt starts after one has resolved.
C4_AtMostThreeSequentialAttempts ==
    swap.variant = "part_018" =>
        LET n == Len(swap.tries)
        IN  /\ n \in 1..3
            /\ \A i \in 1..(n - 1) : swap.tries[i].st = "rejected"
            /\ Running(swap) <=> swap.tries[n].st = "pending"
            /\ swap.stage = "returned" <=> swap.tries[n].st = "resolved"
            /\ swap.stage = "thrown" <=> swap.tries[n].st = "rejected"
            /\ swap.stage = "returned" =>
                   swap.out = [kind |-> "result", value |-> ExecResult(n, swap.tries[n].a)]
            /\ swap.stage = "thrown" => swap.out.kind = "error"
C4_Witness ==
    /\ swap.variant = "part_018"
    /\ Len(swap.tries) = 3
    /\ swap.stage = "thrown"

\* C18: in executeSwap (part_018), whenever an attempt was rejected with a
\* 0x1788 / SharedAccountsRoute error and another attempt followed, that next
\* attempt has useSharedAccounts = false and directOnly = true.
C18_Route1788DisablesSharedAndGoesDirect ==
    swap.variant = "part_018" =>
        \A i \in 1..(Len(swap.tries) - 1) :
            "J1788" \in swap.tries[i].err =>
                /\ ~swap.tries[i + 1].a.useSharedAccounts
                /\ swap.tries[i + 1].a.directOnly

\* A blockhash-expired, not-processed-in-time or confirmation-timeout error:
\* sendRawTransaction or waitForConfirmation raised it, after the quote was
\* obtained, so its message is not jupQuote's "quote failed 400".
IsExpiryFailure(cls) == "Expiry" \in cls /\ "Q400" \notin cls

\* C19: in executeSwap (part_018), when the first attempt was rejected with a
\* blockhash-expired, not-processed-in-time or confirmation-timeout error, the
\* second attempt asks for a quote of its own (not the first attempt's) and
\* its cuPriceMicroLamports is strictly higher than the first attempt's.
C19_ExpiryRequotesAndRaisesFee ==
    (swap.variant = "part_018" /\ Len(swap.tries) >= 1
        /\ swap.tries[1].st = "rejected" /\ IsExpiryFailure(swap.tries[1].err)) =>
        /\ Len(swap.tries) >= 2
        /\ swap.tries[2].quote # swap.tries[1].quote
        /\ swap.tries[2].a.cuPriceMicroLamports > swap.tries[1].a.cuPriceMicroLamports
C19_Witness ==
    /\ swap.variant = "part_018"
    /\ swap.stage = "retry1"
    /\ swap.tries[1].err = {"Expiry"}
    /\ swap.tries[1].a.cuPriceMicroLamports = 2
    /\ swap.tries[2].a.cuPriceMicroLamports = 5002

\* b restricts the route at least as much as a does
Tightens(a, b) ==
    /\ ~a.useSharedAccounts => ~b.useSharedAccounts
    /\ a.directOnly => b.directOnly
    /\ a.restrictIntermediates => b.restrictIntermediates

\* C20: across the attempts of one executeSwap call (part_018), from each
\* attempt to the next useSharedAccounts never goes from false to true and
\* directOnly and restrictIntermediates never go from true to false.
C20_RouteRestrictionOnlyTightens ==
    swap.variant = "part_018" =>
        \A i \in 1..(Len(swap.tries) - 1) :
            Tightens(swap.tries[i].a, swap.tries[i + 1].a)
C20_Witness ==
    /\ swap.variant = "part_018"
    /\ Len(swap.tries) = 3
    /\ ~swap.tries[1].a.useSharedAccounts
    /\ swap.tries[3].a.directOnly

\* C34: in executeSwap (part_018), once the second attempt (retry#1, shared
\* accounts off) was rejected, a third attempt is made if and only if the
\* second attempt's own error is a 0x1788 or a simulation/slippage failure,
\* whatever the class of the first attempt's error.
C34_ThirdAttemptDecidedBySecondFailure ==
    (swap.variant = "part_018" /\ Len(swap.tries) >= 2
        /\ swap.tries[2].st = "rejected" /\ ~swap.tries[2].a.directOnly) =>
        (Len(swap.tries) >= 3 <=>
            ("J1788" \in swap.tries[2].err \/ "SimFail" \in swap.tries[2].err))

\* ---- SpecSig: the handler of src/nexagent-signal.ts, NReq requests ----

\* two requests in flight
Reqs == {1, 2}
SignalIds == {"s1", "s2"}
\* requested UI amounts: 0.12 and 0.1800000004
Amounts == {1200000000, 1800000004}
\* wallet SOL balances a request may observe: 0.025, 0.15, 0.21
SolBalances == {250000000, 1500000000, 2100000000}
\* wallet token balances a request may observe: 0.05, 0.15, 0.2
TokenBalances == {500000000, 1500000000, 2000000000}
\* the failures an attempt of executeSwap may meet under this specification
SigErrors(n) == {Err("tryOnce", n, c) : c \in {{}, {"SimFail"}, {"Q400"}}}

Bodies ==
    {[signalId |-> s, dir |-> k[1], inputMint |-> k[2], outputMint |-> k[3],
      inputAmount |-> a, slippageBps |-> <<>>] :
        s \in SignalIds, a \in Amounts,
        k \in {<<"BUY", SOL_MINT, TOKEN_MINT>>, <<"SELL", TOKEN_MINT, SOL_MINT>>}}

NewRequest(body) ==
    [pc |-> "recv", body |-> body, amount |-> body.inputAmount, eventKey |-> NoKey,
     reserved |-> FALSE, amountMinor |-> 0, exec |-> IdleSwap, swapCalls |-> 0,
     err |-> NoErr,
     setFailed |-> FALSE, resp |-> NoResp]

SigInit ==
    /\ swap = IdleSwap
    /\ enableSells \in BOOLEAN
    /\ signal_events = <<>>
    /\ trades = {}
    /\ req \in [Reqs -> {NewRequest(b) : b \in Bodies}]
    /\ ClaimIdle

\* ref.set({status, data, doneAt}, {merge: true})
completeEvent(events, key, doc) == (key :> doc) @@ events

\* The handler answers and ends; the activation of executeSwap is gone by then.
Respond(q, resp) == [q EXCEPT !.pc = "done", !.resp = resp, !.exec = IdleSwap]
\* An await outside every try rejects: the handler ends without answering.
Unhandled(q, e, bySet) ==
    [q EXCEPT !.pc = "crashed", !.err = e, !.setFailed = @ \/ bySet, !.exec = IdleSwap]

\* Balance-aware sizing, up to the computation of eventKey.  A size below the
\* minimum is recorded as SKIPPED under the key without amount, and answered.
Size(r) ==
    LET q == req[r]
        b == q.body
    IN  /\ q.pc = "recv"
        /\ \E bal \in (IF b.dir = "BUY" THEN SolBalances ELSE TokenBalances), setOk \in BOOLEAN :
             LET sized == b.dir = "SELL" \/ b.inputMint = SOL_MINT
                 desired == IF b.dir = "BUY" /\ b.inputMint = SOL_MINT
                            THEN SizeBuy(q.amount, bal)
                            ELSE IF b.dir = "SELL" THEN SizeSell(q.amount, bal)
                            ELSE q.amount
                 floor == IF b.dir = "BUY" THEN MIN_BUY_UI ELSE MIN_SELL_UI
             IN  IF sized /\ desired < floor
                 THEN IF setOk
                      THEN /\ signal_events' =
                                completeEvent(signal_events, SkipKeyOf(b),
                                              EventDoc("SKIPPED", "too small", 0, NoErr))
                           /\ req' = [req EXCEPT ![r] =
                                        Respond(q, Resp(200, "ignored", 0, NoErr))]
                      ELSE /\ req' = [req EXCEPT ![r] =
                                        Unhandled(q, Err("completeEvent", 0, {}), TRUE)]
                           /\ UNCHANGED signal_events
                 ELSE /\ setOk
                      /\ req' = [req EXCEPT ![r] =
                                   [q EXCEPT !.pc = "sized", !.amount = desired,
                                             !.eventKey = EventKeyOf(b, desired)]]
                      /\ UNCHANGED signal_events
        /\ UNCHANGED <<claimVars, swap, enableSells, trades>>

\* reserveEvent: ref.create fails with ALREADY_EXISTS when the document exists.
ReserveOutcome(events, key) ==
    IF key \in DOMAIN events THEN "already-exists" ELSE "created"

Reserve(r) ==
    LET q == req[r]
    IN  /\ q.pc = "sized"
        /\ \E storeOk \in BOOLEAN :
             IF ~storeOk
             THEN /\ req' = [req EXCEPT ![r] =
                               Respond(q, Resp(500, "error", 0, Err("reserveEvent", 0, {})))]
                  /\ UNCHANGED signal_events
             ELSE IF ReserveOutcome(signal_events, q.eventKey) = "already-exists"
             THEN /\ req' = [req EXCEPT ![r] = Respond(q, Resp(200, "duplicate", 0, NoErr))]
                  /\ UNCHANGED signal_events
             ELSE /\ signal_events' =
                        (q.eventKey :> EventDoc("PROCESSING", "", 0, NoErr)) @@ signal_events
                  /\ req' = [req EXCEPT ![r] = [q EXCEPT !.pc = "reserved", !.reserved = TRUE]]
        /\ UNCHANGED <<claimVars, swap, enableSells, trades>>

TradeDoc(r, action, signature) == [by |-> r, action |-> action, txid |-> signature]

\* dir === "SELL" && !ENABLE_SELLS: logTrade, completeEvent, answer; no try.
SellSkipped(r) ==
    LET q == req[r]
    IN  /\ q.pc = "reserved"
        /\ q.body.dir = "SELL" /\ ~enableSells
        /\ \E addOk \in BOOLEAN, setOk \in BOOLEAN :
             IF ~addOk
             THEN /\ req' = [req EXCEPT ![r] = Unhandled(q, Err("logTrade", 0, {}), FALSE)]
                  /\ UNCHANGED <<signal_events, trades, validQuote,
                   hookVars>>
             ELSE /\ trades' = trades \cup {TradeDoc(r, "SELL_SKIPPED", 0)}
                  /\ IF setOk
                     THEN /\ signal_events' =
                               completeEvent(signal_events, q.eventKey,
                                             EventDoc("SKIPPED", "SELL_DISABLED", 0, NoErr))
                          /\ req' = [req EXCEPT ![r] =
                                       Respond(q, Resp(200, "skipped", 0, NoErr))]
                     ELSE /\ req' = [req EXCEPT ![r] =
                                       Unhandled(q, Err("completeEvent", 0, {}), TRUE)]
                          /\ UNCHANGED signal_events
        /\ UNCHANGED <<claimVars, swap, enableSells>>

\* The try block up to the call of executeSwap: amountMinor, then attempt #1.
BeginSwap(r) ==
    LET q == req[r]
        b == q.body
    IN  /\ q.pc = "reserved"
        /\ ~(b.dir = "SELL" /\ ~enableSells)
        /\ \E decimalsOk \in BOOLEAN :
             IF b.inputMint # SOL_MINT /\ ~decimalsOk
             THEN req' = [req EXCEPT ![r] =
                            [q EXCEPT !.pc = "catch", !.err = Err("getMintDecimals", 0, {})]]
             ELSE /\ b.inputMint = SOL_MINT => decimalsOk
                  /\ req' = [req EXCEPT ![r] =
                       [q EXCEPT !.pc = "swapping", !.swapCalls = @ + 1,
                                 !.amountMinor = IF b.inputMint = SOL_MINT
                                                 THEN toLamports(q.amount)
                                                 ELSE ToMinor(q.amount, MintDecimals),
                                 !.exec = StartSwap("part_018",
                                     [slippageBps |-> <<Coalesce(b.slippageBps, DEFAULT_SLIPPAGE_BPS)>>,
                                      cuPriceMicroLamports |-> <<CUP>>,
                                      useSharedAccounts |-> <<>>])]]
        /\ UNCHANGED <<claimVars, swap, enableSells, signal_events, trades>>

\* The attempt in flight resolves: executeSwap returns and the handler goes on
\* to logTrade.
SigTryResolves(r) ==
    LET q == req[r]
    IN  /\ q.pc = "swapping"
        /\ req' = [req EXCEPT ![r] = [q EXCEPT !.pc = "logging", !.exec = SwapResolved(q.exec)]]
        /\ UNCHANGED <<claimVars, swap, enableSells, signal_events, trades>>

\* The attempt in flight rejects: executeSwap retries, or throws into the
\* handler's catch block.
SigTryRejects(r) ==
    LET q == req[r]
    IN  /\ q.pc = "swapping"
        /\ \E e \in SigErrors(Len(q.exec.tries)) :
             LET x == SwapRejected(q.exec, e)
             IN  req' = [req EXCEPT ![r] =
                           IF x.stage = "thrown"
                           THEN [q EXCEPT !.pc = "catch", !.exec = x, !.err = x.out.value]
                           ELSE [q EXCEPT !.exec = x]]
        /\ UNCHANGED <<claimVars, swap, enableSells, signal_events, trades>>

\* await logTrade({...}) inside the try block
LogTrade(r) ==
    LET q == req[r]
    IN  /\ q.pc = "logging"
        /\ \E addOk \in BOOLEAN :
             IF addOk
             THEN /\ trades' = trades \cup
                        {TradeDoc(r, q.body.dir, q.exec.out.value.signature)}
                  /\ req' = [req EXCEPT ![r].pc = "completing"]
             ELSE /\ req' = [req EXCEPT ![r] =
                               [q EXCEPT !.pc = "catch", !.err = Err("logTrade", 0, {})]]
                  /\ UNCHANGED trades
        /\ UNCHANGED <<claimVars, swap, enableSells, signal_events>>

\* await completeEvent(eventKey, "SUCCESS", {signature}); res.json({ok, signature})
CompleteSuccess(r) ==
    LET q == req[r]
        sig == q.exec.out.value.signature
    IN  /\ q.pc = "completing"
        /\ \E setOk \in BOOLEAN :
             IF setOk
             THEN /\ signal_events' =
                        completeEvent(signal_events, q.eventKey,
                                      EventDoc("SUCCESS", "", sig, NoErr))
                  /\ req' = [req EXCEPT ![r] = Respond(q, Resp(200, "ok", sig, NoErr))]
             ELSE /\ req' = [req EXCEPT ![r] =
                               [q EXCEPT !.pc = "catch", !.setFailed = TRUE,
                                         !.err = Err("completeEvent", 0, {})]]
                  /\ UNCHANGED signal_events
        /\ UNCHANGED <<claimVars, swap, enableSells, trades>>

\* the catch block: completeEvent(eventKey, "FAILED", {error: msg}); 500
CatchStatus == "FAILED"
Catch(r) ==
    LET q == req[r]
    IN  /\ q.pc = "catch"
        /\ \E setOk \in BOOLEAN :
             IF setOk
             THEN /\ signal_events' =
                        completeEvent(signal_events, q.eventKey,
                                      EventDoc(CatchStatus, "", 0, q.err))
                  /\ req' = [req EXCEPT ![r] = Respond(q, Resp(500, "error", 0, q.err))]
             ELSE /\ req' = [req EXCEPT ![r] =
                               Unhandled(q, Err("completeEvent", 0, {}), TRUE)]
                  /\ UNCHANGED signal_events
        /\ UNCHANGED <<claimVars, swap, enableSells, trades>>

SigNext ==
    \E r \in Reqs :
        \/ Size(r)
        \/ Reserve(r)
        \/ SellSkipped(r)
        \/ BeginSwap(r)
        \/ SigTryResolves(r)
        \/ SigTryRejects(r)
        \/ LogTrade(r)
        \/ CompleteSuccess(r)
        \/ Catch(r)

SpecSig == SigInit /\ [][SigNext]_vars

Ended(q) == q.pc \in {"done", "crashed"}

\* C2: in the handler of nexagent-signal.ts, when the same signal (same
\* signalId, direction, mints and requested amount) is sent twice, the second
\* request does not call executeSwap, whatever wallet balance each of the two
\* requests observes: of two requests that carry the same signal at most one
\* calls executeSwap.
C2_SameSignalTwiceExecutesOnce ==
    \A r1 \in Reqs, r2 \in Reqs :
        (r1 # r2 /\ req[r1].body = req[r2].body) =>
            ~(req[r1].swapCalls > 0 /\ req[r2].swapCalls > 0)

\* C5: when executeSwap (part_018) throws, the error is the one the last
\* tryOnce attempt it ran was rejected with, and it returns only if an attempt
\* resolved; the handler of nexagent-signal.ts then completes the event as
\* FAILED with that error and answers 500 with it (when the store's set
\* succeeds).
C5_LastErrorSurfacedAndRecorded ==
    \A r \in Reqs :
        LET q == req[r]
            x == q.exec
            n == Len(x.tries)
        IN  /\ x.stage = "thrown" =>
                /\ x.tries[n].st = "rejected"
                /\ x.out.value = Err("tryOnce", n, x.tries[n].err)
                /\ q.pc = "catch" /\ q.err = x.out.value
            /\ x.stage = "returned" => \E i \in 1..n : x.tries[i].st = "resolved"
            /\ (q.pc = "done" /\ q.err.src = "tryOnce") =>
                /\ signal_events[q.eventKey].status = "FAILED"
                /\ signal_events[q.eventKey].error = q.err
                /\ q.resp.status = 500 /\ q.resp.error = q.err
            /\ (q.pc = "done" /\ q.resp.kind = "ok") => q.err.src # "tryOnce"
C5_Witness ==
    \E r \in Reqs :
        /\ req[r].pc = "done"
        /\ req[r].err.src = "tryOnce"
        /\ req[r].err.at = 3
        /\ signal_events[req[r].eventKey].status = "FAILED"

\* C6: in the handler of nexagent-signal.ts, an event that reserveEvent created
\* with status PROCESSING is not left in PROCESSING once the handler has ended
\* (provided every set of the store that the handler made succeeded).
C6_NoEventLeftProcessing ==
    \A r \in Reqs :
        (Ended(req[r]) /\ req[r].reserved /\ ~req[r].setFailed) =>
            signal_events[req[r].eventKey].status \in {"SUCCESS", "SKIPPED", "FAILED"}

\* C21: in the handler of nexagent-signal.ts, when logTrade rejected after
\* executeSwap had returned a result, the request still ends with its event
\* completed as SUCCESS and with the answer ok carrying the signature.
C21_TradeLogFailureDoesNotFailTrade ==
    \A r \in Reqs :
        (req[r].pc = "done" /\ req[r].err.src = "logTrade") =>
            /\ req[r].resp.kind = "ok"
            /\ req[r].resp.status = 200
            /\ signal_events[req[r].eventKey].status = "SUCCESS"

(***************************************************************************)
(* src/tradeExecutor.ts: executeTradeFromSignal.  Lamports and raw token   *)
(* units are integers; input_amount and solAmount are SOL, counted in      *)
(* units of 1e-10.                                                         *)
(***************************************************************************)

\* MIN_SOL_BUFFER = 0.02 * LAMPORTS_PER_SOL
MIN_SOL_BUFFER == 20000000
EST_FEE_LAMPORTS == 600000
\* let tipLamports = 0.001 * LAMPORTS_PER_SOL
DEFAULT_TIP_LAMPORTS == 1000000
\* 0.0003 * LAMPORTS_PER_SOL
TIP_FLOOR_LAMPORTS == 300000
\* getAtaRentLamports' fallback
ATA_RENT_FALLBACK == 2039280

\* getSolvencyAndTip(balLamports, needsAta, ataRent)
getSolvencyAndTip(balLamports, ata, ataRent) ==
    LET rentCost == IF ata THEN ataRent ELSE 0
        requiredForOverhead == MIN_SOL_BUFFER + EST_FEE_LAMPORTS + rentCost
        low == balLamports < requiredForOverhead + DEFAULT_TIP_LAMPORTS
        remainingSol == balLamports - requiredForOverhead
        tipLamports == IF low THEN Max(TIP_FLOOR_LAMPORTS, remainingSol)
                       ELSE DEFAULT_TIP_LAMPORTS
    IN  [threw |-> low /\ remainingSol <= 0,
         rentCost |-> rentCost,
         tipLamports |-> tipLamports,
         spendableLamports |-> Max(0, balLamports - (requiredForOverhead + tipLamports))]

\* BigInt(Math.round(input_amount * LAMPORTS_PER_SOL))
RequestedLamports(input_amount) == (input_amount + 5) \div 10
\* Number(amountInSmallestUnit) / LAMPORTS_PER_SOL
LamportsToSol(lamports) == lamports * 10

\* The BUY amount with no auto-sizing: the requested lamports as they are
BuyAmountUnclipped(requested, spendable) == requested
\* Auto-sizing of a BUY (spendable > 0 when requested > spendable)
BuyAmount(requested, spendable) ==
    IF requested > spendable THEN spendable ELSE requested

\* the whole balance, with no dust left behind
SellAmountWhole(balance) == balance
\* (balance * 9999n) / 10000n
SellAmount(balance) == (balance * 9999) \div 10000

TradeSignal(action, signal_id, input_amount) ==
    [action |-> action, signal_id |-> signal_id, input_amount |-> input_amount]

\* A record handed to logTradeToFirestore
TradeLog(signal, status, txid, solAmount, error) ==
    [signal_id |-> signal.signal_id, action |-> signal.action, status |-> status,
     txid |-> txid, solAmount |-> solAmount, error |-> error]

\* A record handed to managePosition
Position(signal, status, txid, solAmount) ==
    [signal_id |-> signal.signal_id, status |-> status, txid |-> txid,
     solAmount |-> solAmount]

\* The race over sendPromises (step 6): the channels that were configured, the
\* sends that have settled, in the order they settled, the closure variables
\* `resolved` and `errors`, how the race's promise has settled and with what,
\* and how many times resolve or reject was called.
Channels == {"helius", "rpc"}
NoRace ==
    [channels |-> {}, order |-> <<>>, resolved |-> FALSE, errors |-> 0,
     outcome |-> "none", value |-> "", settleCalls |-> 0]
NewRace(channels) == [NoRace EXCEPT !.channels = channels, !.outcome = "pending"]
Settled(race) == {race.order[i].ch : i \in 1..Len(race.order)}

\* resolve(v) / reject(e): a promise that has settled stays as it is
Resolve(race, ch) ==
    [race EXCEPT !.settleCalls = @ + 1,
                 !.outcome = IF @ = "pending" THEN "resolved" ELSE @,
                 !.value = IF race.outcome = "pending" THEN ch ELSE @]
Reject(race) ==
    [race EXCEPT !.settleCalls = @ + 1,
                 !.outcome = IF @ = "pending" THEN "rejected" ELSE @]

\* p.then(result => { resolve(result); }) with no `resolved` flag
OnSendResolvedUnguarded(race, ch) ==
    Resolve([race EXCEPT !.order = Append(@, [ch |-> ch, ok |-> TRUE])], ch)
\* p.then(result => { if (!resolved) { resolved = true; resolve(result); } })
OnSendResolved(race, ch) ==
    LET q == [race EXCEPT !.order = Append(@, [ch |-> ch, ok |-> TRUE])]
    IN  IF ~q.resolved THEN Resolve([q EXCEPT !.resolved = TRUE], ch) ELSE q
\* .catch(error => { errors.push(error); if (errors.length === sendPromises.length) reject(...) })
OnSendRejected(race, ch) ==
    LET q == [race EXCEPT !.order = Append(@, [ch |-> ch, ok |-> FALSE]),
                          !.errors = @ + 1]
    IN  IF q.errors = Cardinality(q.channels) THEN Reject(q) ELSE q

IdleTrade ==
    [pc |-> "idle", signal |-> TradeSignal("", "", 0), solvency |-> "none",
     rentCost |-> 0, tipLamports |-> 0, spendableLamports |-> 0, requested |-> 0,
     amount |-> 0, quoted |-> <<>>, race |-> NoRace, txid |-> <<>>,
     confirmed |-> FALSE, error |-> "", logs |-> <<>>]

\* executeTradeFromSignal(signal), up to its first await
StartTrade(signal) == [IdleTrade EXCEPT !.pc = "botStatus", !.signal = signal]

\* throw new Error(msg) inside the try block
Fail(t, msg) == [t EXCEPT !.pc = "catch", !.error = msg]

\* logTradeToFirestore and managePosition catch what the store throws
logTradeToFirestoreRethrows(storeOk) == ~storeOk
logTradeToFirestoreThrows(storeOk) == FALSE

AtaRents == {ATA_RENT_FALLBACK, 2074080}

\* const botStatus = await getBotStatus(); if (botStatus !== 'RUNNING') throw
TradeBotStatus(r) ==
    LET t == trade[r]
    IN  /\ t.pc = "botStatus"
        /\ \E readOk \in BOOLEAN :
             trade' = [trade EXCEPT ![r] =
                 IF ~readOk THEN Fail(t, "getBotStatus failed")
                 ELSE IF botStatus # "RUNNING" THEN Fail(t, "Bot status is not RUNNING")
                 ELSE [t EXCEPT !.pc = "fetch"]]
        /\ UNCHANGED <<swap, sigVars, handler, envVars, callVars, positions, hreq, signals, ingest_dedup>>

\* Step 1 and step 2: the parallel fetch, getSolvencyAndTip, and the sizing of
\* a BUY.  A SELL goes on to read the wallet's token balance.
TradeFetch(r) ==
    LET t == trade[r]
        buy == t.signal.action = "BUY"
    IN  /\ t.pc = "fetch"
        /\ \E fetchOk \in BOOLEAN, ataRent \in AtaRents :
             LET s == getSolvencyAndTip(solBalance, buy /\ needsAta, ataRent)
                 requested == RequestedLamports(t.signal.input_amount)
                 u == [t EXCEPT !.solvency = "returned", !.rentCost = s.rentCost,
                                !.tipLamports = s.tipLamports,
                                !.spendableLamports = s.spendableLamports]
             IN  trade' = [trade EXCEPT ![r] =
                     IF ~fetchOk THEN Fail(t, "fetch failed")
                     ELSE IF s.threw
                     THEN Fail([t EXCEPT !.solvency = "threw", !.rentCost = s.rentCost],
                               "Insufficient SOL for minimum buffer + fees + rent")
                     ELSE IF ~buy THEN [u EXCEPT !.pc = "sellBalance"]
                     ELSE IF requested > s.spendableLamports /\ s.spendableLamports <= 0
                     THEN Fail([u EXCEPT !.requested = requested],
                               "Insufficient SOL to execute any BUY trade after overhead costs")
                     ELSE [u EXCEPT !.pc = "quote", !.requested = requested,
                                    !.amount = BuyAmount(requested, s.spendableLamports)]]
        /\ UNCHANGED <<swap, sigVars, handler, envVars, callVars, positions, hreq, signals, ingest_dedup>>

\* SELL: getWalletTokenBalance returns 0n when no token account is found.
TradeSellBalance(r) ==
    LET t == trade[r]
    IN  /\ t.pc = "sellBalance"
        /\ \E found \in BOOLEAN :
             LET balance == IF found THEN tokenBalance ELSE 0
             IN  trade' = [trade EXCEPT ![r] =
                     IF balance = 0 THEN Fail(t, "No wallet balance")
                     ELSE [t EXCEPT !.pc = "quote", !.amount = SellAmount(balance)]]
        /\ UNCHANGED <<swap, sigVars, handler, envVars, callVars, positions, hreq, signals, ingest_dedup>>

\* Step 3: getFreshQuote(input_mint, output_mint, amountInSmallestUnit, action)
TradeQuote(r) ==
    LET t == trade[r]
    IN  /\ t.pc = "quote"
        /\ \E quoteOk \in BOOLEAN :
             trade' = [trade EXCEPT ![r] =
                 IF quoteOk THEN [t EXCEPT !.pc = "build", !.quoted = <<t.amount>>]
                 ELSE Fail([t EXCEPT !.quoted = <<t.amount>>],
                           "Failed to obtain a fresh quote.")]
        /\ UNCHANGED <<swap, sigVars, handler, envVars, callVars, positions, hreq, signals, ingest_dedup>>

\* Steps 4 and 5: swapInstructionsPost, the lookup tables, the simulation
TradeBuild(r) ==
    LET t == trade[r]
    IN  /\ t.pc = "build"
        /\ \E outcome \in {"ok", "swapInstructionsPost failed",
                           "Could not fetch ALT account info", "Simulation failed"} :
             trade' = [trade EXCEPT ![r] =
                 IF outcome = "ok" THEN [t EXCEPT !.pc = "send"] ELSE Fail(t, outcome)]
        /\ UNCHANGED <<swap, sigVars, handler, envVars, callVars, positions, hreq, signals, ingest_dedup>>

\* Step 6: the transaction goes out by the Helius sender (when the endpoint
\* has an api key) and by the RPC, and the race over sendPromises begins.
TradeSend(r) ==
    LET t == trade[r]
    IN  /\ t.pc = "send"
        /\ trade' = [trade EXCEPT ![r] =
               [t EXCEPT !.pc = "sending",
                         !.race = NewRace(IF heliusApiKey THEN {"helius", "rpc"} ELSE {"rpc"})]]
        /\ UNCHANGED <<swap, sigVars, handler, envVars, callVars, positions, hreq, signals, ingest_dedup>>

\* A send promise settles and its callback of the race runs.  The await of
\* the race resumes when the race settles; a send that settles later finds the
\* race settled and executeTradeFromSignal further on.
TradeSendSettles(r) ==
    LET t == trade[r]
    IN  /\ t.race.outcome # "none"
        /\ \E ch \in t.race.channels \ Settled(t.race), ok \in BOOLEAN :
             LET race == IF ok THEN OnSendResolved(t.race, ch)
                         ELSE OnSendRejected(t.race, ch)
                 u == [t EXCEPT !.race = race]
             IN  trade' = [trade EXCEPT ![r] =
                     IF t.pc = "sending" /\ race.outcome = "resolved"
                     THEN [u EXCEPT !.pc = "confirm", !.txid = <<r>>]
                     ELSE IF t.pc = "sending" /\ race.outcome = "rejected"
                     THEN Fail(u, "All transaction send attempts failed.")
                     ELSE u]
        /\ UNCHANGED <<swap, sigVars, handler, envVars, callVars, positions, hreq, signals, ingest_dedup>>

\* Step 7: confirmTransaction
TradeConfirm(r) ==
    LET t == trade[r]
    IN  /\ t.pc = "confirm"
        /\ \E outcome \in {"ok", "Confirmation failed", "block height exceeded"} :
             trade' = [trade EXCEPT ![r] =
                 IF outcome = "ok" THEN [t EXCEPT !.pc = "position", !.confirmed = TRUE]
                 ELSE Fail(t, outcome)]
        /\ UNCHANGED <<swap, sigVars, handler, envVars, callVars, positions, hreq, signals, ingest_dedup>>

\* await managePosition({...}): the upsert's failure is caught inside it
TradeManagePosition(r) ==
    LET t == trade[r]
        doc == IF t.signal.action = "BUY"
               THEN Position(t.signal, "open", t.txid, LamportsToSol(t.amount))
               ELSE Position(t.signal, "closed", t.txid, 0)
    IN  /\ t.pc = "position"
        /\ \E storeOk \in BOOLEAN :
             positions' = IF storeOk THEN positions \cup {doc} ELSE positions
        /\ trade' = [trade EXCEPT ![r].pc = "record"]
        /\ UNCHANGED <<swap, sigVars, handler, envVars, callVars, hreq, signals, ingest_dedup>>

\* await logTradeToFirestore({..., status: 'Success'})
TradeLogSuccess(r) ==
    LET t == trade[r]
        doc == TradeLog(t.signal, "Success", t.txid, LamportsToSol(t.amount), "")
        u == [t EXCEPT !.logs = Append(@, doc)]
    IN  /\ t.pc = "record"
        /\ \E storeOk \in BOOLEAN :
             /\ trades' = IF storeOk THEN trades \cup {doc} ELSE trades
             /\ trade' = [trade EXCEPT ![r] =
                    IF logTradeToFirestoreThrows(storeOk)
                    THEN Fail(u, "Failed to log trade")
                    ELSE [u EXCEPT !.pc = "resolved"]]
        /\ UNCHANGED <<swap, enableSells, signal_events, req, handler, envVars, callVars, positions,
                       hreq, signals, ingest_dedup>>

\* catch (error): await logTradeToFirestore({txid: null, ..., status: 'Failed'})
TradeCatch(r) ==
    LET t == trade[r]
        doc == TradeLog(t.signal, "Failed", <<>>, 0, t.error)
        u == [t EXCEPT !.logs = Append(@, doc)]
    IN  /\ t.pc = "catch"
        /\ \E storeOk \in BOOLEAN :
             /\ trades' = IF storeOk THEN trades \cup {doc} ELSE trades
             /\ trade' = [trade EXCEPT ![r] =
                    IF logTradeToFirestoreThrows(storeOk)
                    THEN [u EXCEPT !.pc = "threw"]
                    ELSE [u EXCEPT !.pc = "resolved"]]
        /\ UNCHANGED <<swap, enableSells, signal_events, req, handler, envVars, callVars, positions,
                       hreq, signals, ingest_dedup>>

\* ---- SpecTrade: one call of executeTradeFromSignal ----

BalanceSteps == 36
\* wallet balances from 0.0205 SOL upwards, in steps of 0.0001 SOL
LamportBalances == {20500000 + 100000 * k : k \in 0..BalanceSteps}
\* raw token balances of the wallet
RawTokenBalances == {0, 1, 10000, 123456}
\* input_amount: 0.0005000004, 0.002 and 0.01 SOL
InputAmounts == {5000004, 20000000, 100000000}
BotStatuses == {"RUNNING", "OFF"}
Actions == {"BUY", "SELL"}

TradeInit ==
    /\ swap = IdleSwap
    /\ SigIdle
    /\ CallIdle
    /\ handler = "none"
    /\ botStatus \in BotStatuses
    /\ solBalance \in LamportBalances
    /\ needsAta \in BOOLEAN
    /\ tokenBalance \in RawTokenBalances
    /\ heliusApiKey \in BOOLEAN
    /\ \E a \in Actions, x \in InputAmounts :
         trade = [r \in Reqs |-> IF r = 1 THEN StartTrade(TradeSignal(a, "s1", x))
                                  ELSE IdleTrade]
    /\ positions = {}
    /\ hreq = <<>>
    /\ signals = <<>>
    /\ ingest_dedup = <<>>

TradeNext ==
    \E r \in Reqs :
        \/ TradeBotStatus(r)
        \/ TradeFetch(r)
        \/ TradeSellBalance(r)
        \/ TradeQuote(r)
        \/ TradeBuild(r)
        \/ TradeSend(r)
        \/ TradeSendSettles(r)
        \/ TradeConfirm(r)
        \/ TradeManagePosition(r)
        \/ TradeLogSuccess(r)
        \/ TradeCatch(r)

SpecTrade == TradeInit /\ [][TradeNext]_vars

\* C7: every call of executeTradeFromSignal resolves without throwing and
\* requests exactly one trade-log record: one with status Success if and only
\* if the transaction was broadcast and confirmed without error, otherwise one
\* with status Failed that carries the error message; never both.
C7_OneLogRecordPerCall ==
    \A r \in DOMAIN trade :
        LET t == trade[r]
        IN  /\ t.pc # "threw"
            /\ Len(t.logs) <= 1
            /\ t.pc = "resolved" =>
                 /\ Len(t.logs) = 1
                 /\ t.logs[1].status \in {"Success", "Failed"}
                 /\ t.logs[1].status = "Success" <=> (t.txid # <<>> /\ t.confirmed)
                 /\ t.logs[1].status = "Failed" =>
                        (t.logs[1].error = t.error /\ t.error # "")
            /\ t.logs # <<>> => t.pc = "resolved"
C7_Witness ==
    \E r \in DOMAIN trade :
        /\ trade[r].pc = "resolved"
        /\ trade[r].txid # <<>>
        /\ trade[r].logs = <<TradeLog(trade[r].signal, "Failed", <<>>, 0, "Confirmation failed")>>

\* C9: for a BUY whose requested lamports exceed spendableLamports, the amount
\* sent to the quote client is spendableLamports when that is positive (not
\* the requested amount, not zero or less), the trade aborts when
\* spendableLamports is 0, and the solAmount of the Success record is the
\* clipped amount.
C9_BuyClippedToSpendable ==
    \A r \in DOMAIN trade :
        LET t == trade[r]
        IN  (t.signal.action = "BUY" /\ t.solvency = "returned"
               /\ t.requested > t.spendableLamports) =>
              /\ t.spendableLamports > 0 =>
                   /\ t.amount = t.spendableLamports
                   /\ t.quoted \in {<<>>, <<t.spendableLamports>>}
                   /\ \A i \in 1..Len(t.logs) :
                        t.logs[i].status = "Success" =>
                            t.logs[i].solAmount = LamportsToSol(t.spendableLamports)
              /\ t.spendableLamports <= 0 =>
                   /\ t.spendableLamports = 0
                   /\ t.quoted = <<>> /\ t.txid = <<>>
                   /\ t.pc \in {"catch", "resolved"}
                   /\ t.error = "Insufficient SOL to execute any BUY trade after overhead costs"
C9_Witness ==
    \E r \in DOMAIN trade :
        LET t == trade[r]
        IN  /\ t.signal.action = "BUY"
            /\ t.requested > t.spendableLamports
            /\ t.spendableLamports > 0
            /\ t.quoted = <<t.spendableLamports>>
            /\ t.pc = "resolved"
            /\ t.logs[1].status = "Success"

\* C10: whenever getSolvencyAndTip returns, spendableLamports <= balLamports -
\* (MIN_SOL_BUFFER + EST_FEE_LAMPORTS + rentCost + tipLamports), for every
\* balance and both values of needsAta.
C10_SpendableWithinBalance ==
    \A r \in DOMAIN trade :
        LET t == trade[r]
        IN  t.solvency = "returned" =>
              t.spendableLamports <=
                solBalance - (MIN_SOL_BUFFER + EST_FEE_LAMPORTS + t.rentCost + t.tipLamports)

\* C11: getSolvencyAndTip throws the insufficient-SOL error exactly when the
\* balance minus the fixed reservations (buffer + estimated fee + rent if
\* needed) is <= 0; when that remainder is positive but smaller than the
\* default tip it returns a tip smaller than the default tip and no larger
\* than the remainder.
C11_TipScaledToRemainder ==
    \A r \in DOMAIN trade :
        LET t == trade[r]
            remainder == solBalance - (MIN_SOL_BUFFER + EST_FEE_LAMPORTS + t.rentCost)
        IN  t.solvency \in {"threw", "returned"} =>
              /\ t.solvency = "threw" <=> remainder <= 0
              /\ (t.solvency = "returned" /\ remainder < DEFAULT_TIP_LAMPORTS) =>
                   /\ t.tipLamports < DEFAULT_TIP_LAMPORTS
                   /\ t.tipLamports <= remainder

\* C12: for every SELL the amount passed to getFreshQuote is
\* floor(onChainTokenBalance * 9999 / 10000), whatever signal.input_amount is,
\* and never exceeds the on-chain balance; with a zero on-chain balance the
\* trade fails before any quote is requested.
C12_SellSizedFromBalance ==
    \A r \in DOMAIN trade :
        LET t == trade[r]
        IN  t.signal.action = "SELL" =>
              /\ t.quoted # <<>> =>
                   /\ tokenBalance > 0
                   /\ t.quoted[1] * 10000 <= tokenBalance * 9999
                   /\ tokenBalance * 9999 < (t.quoted[1] + 1) * 10000
                   /\ t.quoted[1] <= tokenBalance
              /\ tokenBalance = 0 =>
                   /\ t.quoted = <<>> /\ t.txid = <<>>
                   /\ t.pc \in {"catch", "resolved"} => t.error # ""
C12_Witness ==
    \E r \in DOMAIN trade :
        /\ trade[r].signal.action = "SELL"
        /\ tokenBalance = 123456
        /\ trade[r].quoted = <<123443>>
        /\ trade[r].pc = "resolved"

\* C13: the broadcast race settles exactly once: for every completion order
\* of the Helius and RPC sends it resolves with the result of the first
\* channel to succeed, a later success or failure changes nothing, and it
\* rejects with 'All transaction send attempts failed.' if and only if every
\* configured channel failed.
FirstSuccess(race) ==
    LET oks == {i \in 1..Len(race.order) : race.order[i].ok}
    IN  IF oks = {} THEN "" ELSE race.order[CHOOSE i \in oks : \A j \in oks : i <= j].ch
C13_SendRaceSettlesOnce ==
    \A r \in DOMAIN trade :
        LET t == trade[r]
            race == t.race
            allFailed == /\ Settled(race) = race.channels
                         /\ \A i \in 1..Len(race.order) : ~race.order[i].ok
        IN  race.outcome # "none" =>
              /\ race.settleCalls <= 1
              /\ race.outcome = "resolved" <=> FirstSuccess(race) # ""
              /\ race.outcome = "resolved" => race.value = FirstSuccess(race)
              /\ race.outcome = "rejected" <=> allFailed
              /\ race.outcome = "pending" <=> race.settleCalls = 0
              /\ t.pc = "sending" <=> race.outcome = "pending"
              /\ race.outcome = "resolved" => t.txid # <<>>
              /\ race.outcome = "rejected" =>
                   (t.txid = <<>> /\ t.error = "All transaction send attempts failed.")
C13_Witness ==
    \E r \in DOMAIN trade :
        /\ trade[r].race.order = <<[ch |-> "helius", ok |-> FALSE], [ch |-> "rpc", ok |-> TRUE]>>
        /\ trade[r].race.outcome = "resolved"
        /\ trade[r].race.value = "rpc"

\* ---- SpecTradePair: two calls of executeTradeFromSignal for different
\* signals in flight against one wallet ----

PairBalances == {b \in LamportBalances : b % 800000 = 100000}

TradePairInit ==
    /\ swap = IdleSwap
    /\ SigIdle
    /\ CallIdle
    /\ handler = "none"
    /\ botStatus = "RUNNING"
    /\ solBalance \in PairBalances
    /\ needsAta \in BOOLEAN
    /\ tokenBalance \in {10000}
    /\ heliusApiKey = FALSE
    /\ \E a \in Actions, x \in InputAmounts, y \in InputAmounts :
         trade = [r \in Reqs |-> IF r = 1 THEN StartTrade(TradeSignal("BUY", "s1", x))
                                  ELSE StartTrade(TradeSignal(a, "s2", y))]
    /\ positions = {}
    /\ hreq = <<>>
    /\ signals = <<>>
    /\ ingest_dedup = <<>>

SpecTradePair == TradePairInit /\ [][TradeNext]_vars

\* The BUY calls whose transaction has been submitted, while no call has yet
\* seen its transaction confirmed (the balance each of them read still stands).
SubmittedBuys ==
    {r \in Reqs : trade[r].signal.action = "BUY" /\ trade[r].race.outcome # "none"}
NoneConfirmed == \A r \in Reqs : ~trade[r].confirmed
RECURSIVE SumOver(_, _)
SumOver(f, S) ==
    IF S = {} THEN 0 ELSE LET r == CHOOSE x \in S : TRUE IN f[r] + SumOver(f, S \ {r})

\* C33: the amounts that concurrent BUY executions submit for swapping sum to
\* no more than the wallet balance minus the reserved overhead (buffer, fee,
\* rent) and the tips.
C33_ConcurrentBuysWithinBalance ==
    (NoneConfirmed /\ SubmittedBuys # {}) =>
        SumOver([r \in Reqs |-> trade[r].amount + trade[r].tipLamports], SubmittedBuys)
            <= solBalance - (MIN_SOL_BUFFER + EST_FEE_LAMPORTS
                             + SumOver([r \in Reqs |-> trade[r].rentCost], SubmittedBuys))

\* C35: a SELL for which no open position exists in the positions collection
\* is rejected before any quote is requested.
C35_SellWithoutPositionRejectedBeforeQuote ==
    \A r \in Reqs :
        (trade[r].signal.action = "SELL" /\ ~\E p \in positions : p.status = "open") =>
            trade[r].quoted = <<>>

\* C38: a SELL never requests a quote for a zero amount: with a positive
\* on-chain token balance the amount passed to getFreshQuote is positive.
C38_SellQuotesPositiveAmount ==
    \A r \in Reqs :
        (trade[r].signal.action = "SELL" /\ tokenBalance > 0 /\ trade[r].quoted # <<>>) =>
            trade[r].quoted[1] > 0

(***************************************************************************)
(* The webhook handlers that claim a signal before executing it: the third *)
(* variant of src/index.ts (tryClaimSignal, executeTradeFromSignal) and    *)
(* part_005 (claimRef.create, execSwapAdapter).  A request is modelled     *)
(* from the point where authentication and validation have accepted it,   *)
(* so its signal_id is not empty.                                          *)
(***************************************************************************)

\* An HTTP response of these handlers: the status and what the body says.
Answer(status, kind) == [status |-> status, kind |-> kind]

Payload(signal_id, action, input_amount) ==
    [signal_id |-> signal_id, action |-> action, input_amount |-> input_amount]

NewHandlerRequest(payload) ==
    [pc |-> "recv", payload |-> payload, claim |-> "none", execCalls |-> 0,
     execSig |-> <<>>, setFailed |-> FALSE, error |-> "", resp |-> Answer(0, "none")]

\* ref.set(doc): the document is written whether it is there or not
Upsert(store, id) == "created"
\* ref.create(doc): fails with ALREADY_EXISTS (code 6) when the document is there
CreateIfAbsent(store, id) ==
    IF id \in DOMAIN store THEN "already-exists" ELSE "created"

Answered(h, resp) == [h EXCEPT !.pc = "done", !.resp = resp]

\* index.ts step 3: tryClaimSignal.  An unexpected store error is answered
\* 500 'Idempotency store error'; a lost claim 200 'ignored_duplicate'.
IdxClaim(r) ==
    LET h == hreq[r]
        id == h.payload.signal_id
    IN  /\ handler = "index"
        /\ h.pc = "recv"
        /\ \E storeOk \in BOOLEAN :
             IF ~storeOk
             THEN /\ hreq' = [hreq EXCEPT ![r] =
                        Answered([h EXCEPT !.claim = "error"], Answer(500, "store_error"))]
                  /\ UNCHANGED signals
             ELSE IF CreateIfAbsent(signals, id) = "already-exists"
             THEN /\ hreq' = [hreq EXCEPT ![r] =
                        Answered([h EXCEPT !.claim = "lost"], Answer(200, "ignored_duplicate"))]
                  /\ UNCHANGED signals
             ELSE /\ signals' = (id :> [status |-> "received", error |-> ""]) @@ signals
                  /\ hreq' = [hreq EXCEPT ![r] = [h EXCEPT !.pc = "claimed", !.claim = "won"]]
        /\ UNCHANGED <<swap, sigVars, handler, envVars, callVars, trade, positions, ingest_dedup>>

\* markSignalStatus(signal_id, data): ref.set({...data}, {merge: true})
markSignalStatus(store, id, status, error) ==
    (id :> [status |-> status, error |-> error]) @@ store

\* index.ts step 5: markSignalStatus 'processing', then the call of
\* executeTradeFromSignal up to its first await.
IdxBeginExecute(r) ==
    LET h == hreq[r]
        p == h.payload
    IN  /\ handler = "index"
        /\ h.pc = "claimed"
        /\ \E setOk \in BOOLEAN :
             IF setOk
             THEN /\ signals' = markSignalStatus(signals, p.signal_id, "processing", "")
                  /\ hreq' = [hreq EXCEPT ![r] =
                        [h EXCEPT !.pc = "executing", !.execCalls = @ + 1]]
                  /\ trade' = [trade EXCEPT ![r] =
                        StartTrade(TradeSignal(p.action, p.signal_id, p.input_amount))]
             ELSE /\ hreq' = [hreq EXCEPT ![r] =
                        [h EXCEPT !.pc = "catch", !.setFailed = TRUE,
                                  !.error = "markSignalStatus failed"]]
                  /\ UNCHANGED <<signals, trade, validQuote,
                   hookVars>>
        /\ UNCHANGED <<swap, sigVars, handler, envVars, callVars, positions, ingest_dedup>>

\* executeTradeFromSignal has resolved: markSignalStatus 'done', 200 'executed'
IdxMarkDone(r) ==
    LET h == hreq[r]
    IN  /\ handler = "index"
        /\ h.pc = "executing"
        /\ trade[r].pc = "resolved"
        /\ \E setOk \in BOOLEAN :
             IF setOk
             THEN /\ signals' = markSignalStatus(signals, h.payload.signal_id, "done", "")
                  /\ hreq' = [hreq EXCEPT ![r] = Answered(h, Answer(200, "executed"))]
             ELSE /\ hreq' = [hreq EXCEPT ![r] =
                        [h EXCEPT !.pc = "catch", !.setFailed = TRUE,
                                  !.error = "markSignalStatus failed"]]
                  /\ UNCHANGED signals
        /\ UNCHANGED <<swap, sigVars, handler, envVars, callVars, trade, positions, ingest_dedup>>

\* the catch block of step 5: markSignalStatus 'failed', 500.  It is entered
\* when a markSignalStatus of the try block rejects or when
\* executeTradeFromSignal throws; when its own set rejects the handler ends
\* without an answer.
IdxCatch(r) ==
    LET h == hreq[r]
        threw == h.pc = "executing" /\ trade[r].pc = "threw"
        msg == IF threw THEN trade[r].error ELSE h.error
    IN  /\ handler = "index"
        /\ h.pc = "catch" \/ threw
        /\ \E setOk \in BOOLEAN :
             IF setOk
             THEN /\ signals' = markSignalStatus(signals, h.payload.signal_id, "failed", msg)
                  /\ hreq' = [hreq EXCEPT ![r] =
                        Answered([h EXCEPT !.error = msg], Answer(500, "error"))]
             ELSE /\ hreq' = [hreq EXCEPT ![r] =
                        [h EXCEPT !.pc = "crashed", !.setFailed = TRUE, !.error = msg]]
                  /\ UNCHANGED signals
        /\ UNCHANGED <<swap, sigVars, handler, envVars, callVars, trade, positions, ingest_dedup>>

\* part_005: only act if the bot is RUNNING.  Whatever throws inside the
\* handler's outer try is answered 500.
P5BotCheck(r) ==
    LET h == hreq[r]
    IN  /\ handler = "part_005"
        /\ h.pc = "recv"
        /\ \E readOk \in BOOLEAN :
             hreq' = [hreq EXCEPT ![r] =
                 IF ~readOk
                 THEN Answered([h EXCEPT !.error = "settings read failed"], Answer(500, "error"))
                 ELSE IF botStatus # "RUNNING" THEN Answered(h, Answer(200, "ignored_stopped"))
                 ELSE [h EXCEPT !.pc = "toClaim"]]
        /\ UNCHANGED <<swap, sigVars, handler, envVars, callVars, trade, positions, signals, ingest_dedup>>

\* part_005: claimRef.create({status: "processing"}); ALREADY_EXISTS is
\* answered 200 {ok, dedup: true}, any other error is rethrown.
P5Claim(r) ==
    LET h == hreq[r]
        id == h.payload.signal_id
    IN  /\ handler = "part_005"
        /\ h.pc = "toClaim"
        /\ \E storeOk \in BOOLEAN :
             IF ~storeOk
             THEN /\ hreq' = [hreq EXCEPT ![r] =
                        Answered([h EXCEPT !.claim = "error", !.error = "create failed"],
                                 Answer(500, "error"))]
                  /\ UNCHANGED ingest_dedup
             ELSE IF CreateIfAbsent(ingest_dedup, id) = "already-exists"
             THEN /\ hreq' = [hreq EXCEPT ![r] =
                        Answered([h EXCEPT !.claim = "lost"], Answer(200, "dedup"))]
                  /\ UNCHANGED ingest_dedup
             ELSE /\ ingest_dedup' = (id :> [status |-> "processing", error |-> ""]) @@ ingest_dedup
                  /\ hreq' = [hreq EXCEPT ![r] = [h EXCEPT !.pc = "claimed", !.claim = "won"]]
        /\ UNCHANGED <<swap, sigVars, handler, envVars, callVars, trade, positions, signals>>

\* part_005: the raw payload is kept for audit, then execSwapAdapter is called.
P5BeginExecute(r) ==
    LET h == hreq[r]
    IN  /\ handler = "part_005"
        /\ h.pc = "claimed"
        /\ \E setOk \in BOOLEAN :
             hreq' = [hreq EXCEPT ![r] =
                 IF setOk THEN [h EXCEPT !.pc = "executing", !.execCalls = @ + 1]
                 ELSE Answered([h EXCEPT !.error = "raw set failed"], Answer(500, "error"))]
        /\ UNCHANGED <<swap, sigVars, handler, envVars, callVars, trade, positions, signals, ingest_dedup>>

\* part_005: execSwapAdapter resolves with the signature or rejects.
P5SwapSettles(r) ==
    LET h == hreq[r]
    IN  /\ handler = "part_005"
        /\ h.pc = "executing"
        /\ \E swapOk \in BOOLEAN :
             hreq' = [hreq EXCEPT ![r] =
                 IF swapOk THEN [h EXCEPT !.pc = "mirror", !.execSig = <<r>>]
                 ELSE [h EXCEPT !.pc = "catch", !.error = "executeSwap failed"]]
        /\ UNCHANGED <<swap, sigVars, handler, envVars, callVars, trade, positions, signals, ingest_dedup>>

\* part_005: the position and the trade are written, the claim is set to
\* succeeded, and the request is answered 200 {ok, tx}.
P5Mirror(r) ==
    LET h == hreq[r]
        p == h.payload
        sig == TradeSignal(p.action, p.signal_id, p.input_amount)
        pos == Position(sig, IF p.action = "BUY" THEN "open" ELSE "closed", h.execSig,
                        p.input_amount)
        doc == TradeLog(sig, "Success", h.execSig, p.input_amount, "")
    IN  /\ handler = "part_005"
        /\ h.pc = "mirror"
        /\ \E posOk \in BOOLEAN, addOk \in BOOLEAN, setOk \in BOOLEAN :
             /\ positions' = IF posOk THEN positions \cup {pos} ELSE positions
             /\ trades' = IF posOk /\ addOk THEN trades \cup {doc} ELSE trades
             /\ IF posOk /\ addOk /\ setOk
                THEN /\ ingest_dedup' =
                          (p.signal_id :> [status |-> "succeeded", error |-> ""]) @@ ingest_dedup
                     /\ hreq' = [hreq EXCEPT ![r] = Answered(h, Answer(200, "ok"))]
                ELSE /\ hreq' = [hreq EXCEPT ![r] =
                          [h EXCEPT !.pc = "catch", !.error = "store write failed",
                                    !.setFailed = posOk /\ addOk]]
                     /\ UNCHANGED ingest_dedup
        /\ UNCHANGED <<swap, enableSells, signal_events, req, handler, envVars, callVars, trade, signals>>

\* part_005: catch (execErr): the claim is set to failed and the error is
\* rethrown to the outer catch, which answers 500.
P5Catch(r) ==
    LET h == hreq[r]
    IN  /\ handler = "part_005"
        /\ h.pc = "catch"
        /\ \E setOk \in BOOLEAN :
             /\ ingest_dedup' =
                  IF setOk
                  THEN (h.payload.signal_id :> [status |-> "failed", error |-> h.error])
                           @@ ingest_dedup
                  ELSE ingest_dedup
             /\ hreq' = [hreq EXCEPT ![r] =
                    Answered([h EXCEPT !.setFailed = @ \/ ~setOk], Answer(500, "error"))]
        /\ UNCHANGED <<swap, sigVars, handler, envVars, callVars, trade, positions, signals>>

\* ---- SpecClaim: concurrent requests to either handler ----

Handlers == {"index", "part_005"}
\* input_amount of the requests: 0.002 SOL
ClaimAmounts == {20000000}
Payloads == {Payload(s, a, x) : s \in SignalIds, a \in Actions, x \in ClaimAmounts}

ClaimInit ==
    /\ swap = IdleSwap
    /\ SigIdle
    /\ CallIdle
    /\ handler \in Handlers
    /\ botStatus \in BotStatuses
    /\ solBalance = 25000000
    /\ needsAta = FALSE
    /\ tokenBalance = 10000
    /\ heliusApiKey = FALSE
    /\ trade = [r \in Reqs |-> IdleTrade]
    /\ positions = {}
    /\ hreq \in [Reqs -> {NewHandlerRequest(p) : p \in Payloads}]
    /\ signals = <<>>
    /\ ingest_dedup = <<>>

ClaimNext ==
    \E r \in Reqs :
        \/ IdxClaim(r)
        \/ IdxBeginExecute(r)
        \/ IdxMarkDone(r)
        \/ IdxCatch(r)
        \/ P5BotCheck(r)
        \/ P5Claim(r)
        \/ P5BeginExecute(r)
        \/ P5SwapSettles(r)
        \/ P5Mirror(r)
        \/ P5Catch(r)
        \/ TradeBotStatus(r)
        \/ TradeFetch(r)
        \/ TradeSellBalance(r)
        \/ TradeQuote(r)
        \/ TradeBuild(r)
        \/ TradeSend(r)
        \/ TradeSendSettles(r)
        \/ TradeConfirm(r)
        \/ TradeManagePosition(r)
        \/ TradeLogSuccess(r)
        \/ TradeCatch(r)

SpecClaim == ClaimInit /\ [][ClaimNext]_vars

\* C1: in the index.ts handler (tryClaimSignal) and in the part_005 handler
\* (claimRef.create), under every interleaving of concurrent requests with the
\* same signal_id, at most one request wins the create-if-absent claim and
\* calls the executor; every other request whose create came back is answered
\* as a duplicate (ignored_duplicate / dedup: true) and never calls the
\* executor, so nothing is broadcast for it.
C1_AtMostOneClaimExecutes ==
    \A r1 \in DOMAIN hreq :
        LET h == hreq[r1]
        IN  /\ h.execCalls <= 1
            /\ h.execCalls > 0 => h.claim = "won"
            /\ h.claim \in {"lost", "error"} =>
                 /\ h.pc = "done" /\ h.execCalls = 0
                 /\ trade[r1].pc = "idle" /\ h.execSig = <<>>
            /\ h.claim = "lost" =>
                 h.resp = Answer(200, IF handler = "index" THEN "ignored_duplicate"
                                      ELSE "dedup")
            /\ \A r2 \in DOMAIN hreq :
                 (r1 # r2 /\ hreq[r2].payload.signal_id = h.payload.signal_id) =>
                     /\ ~(h.claim = "won" /\ hreq[r2].claim = "won")
                     /\ ~(h.execCalls > 0 /\ hreq[r2].execCalls > 0)
C1_Witness ==
    \E r1 \in DOMAIN hreq, r2 \in DOMAIN hreq :
        /\ r1 # r2
        /\ hreq[r1].payload.signal_id = hreq[r2].payload.signal_id
        /\ hreq[r1].claim = "won" /\ hreq[r1].pc = "executing"
        /\ hreq[r2].claim = "lost" /\ hreq[r2].pc = "done"

\* C8: in the index.ts handler, the signal record reaches status 'done' and
\* the response 'executed' only if the trade run by executeTradeFromSignal was
\* confirmed on-chain; whenever the trade fails, the signal record ends with
\* status 'failed' (provided the store's sets succeed).
C8_DoneOnlyIfConfirmed ==
    \A r \in DOMAIN hreq :
        LET h == hreq[r]
        IN  (handler = "index" /\ h.pc = "done" /\ h.claim = "won" /\ ~h.setFailed) =>
              /\ (signals[h.payload.signal_id].status = "done" \/ h.resp.kind = "executed")
                    => trade[r].confirmed
              /\ ~trade[r].confirmed => signals[h.payload.signal_id].status = "failed"

(***************************************************************************)
(* waitForConfirmation of src/unnamed/part_018.  Times are Date.now() -    *)
(* started, in milliseconds.  The cluster's view of the transaction moves  *)
(* on its own while the function polls.                                    *)
(***************************************************************************)

\* What the cluster holds for the signature: nothing (not landed, or dropped),
\* the transaction at one of the three commitment levels, or the transaction
\* landed with a program error ("failed", at commitment confirmed).
ChainStates == {"none", "processed", "confirmed", "finalized", "failed"}

\* connection.getSignatureStatuses([signature]).value[0], as statusOk reads it:
\* "null", the confirmationStatus, or "err" when s.err is set.
getSignatureStatuses(chain) ==
    CASE chain = "none" -> "null"
      [] chain = "failed" -> "err"
      [] OTHER -> chain

\* connection.getTransaction(signature, {commitment: "confirmed"}): the
\* transaction once it is confirmed, with meta.err set if it failed; else null.
getTransaction(chain) ==
    CASE chain \in {"confirmed", "finalized"} -> "tx"
      [] chain = "failed" -> "txWithErr"
      [] OTHER -> "null"

\* statusOk: throws on s.err, else conf === "confirmed" || conf === "finalized"
statusOk(s) ==
    CASE s = "err" -> "throws"
      [] s = "rejected" -> "rejects"
      [] s \in {"confirmed", "finalized"} -> "true"
      [] OTHER -> "false"

\* the loop left at half the timeout
InTimeHalfway(now, timeoutMs) == 2 * now < timeoutMs
\* while (Date.now() - started < timeoutMs)
InTime(now, timeoutMs) == now < timeoutMs

\* if (tx) return; // landed
Landed(tx) == tx \in {"tx", "txWithErr"}

StatusRead(at, saw) == [call |-> "getSignatureStatuses", at |-> at, saw |-> saw]
TransactionRead(at, saw) == [call |-> "getTransaction", at |-> at, saw |-> saw]

Returned(c, read) == [c EXCEPT !.pc = "returned", !.reads = Append(@, read)]
Threw(c, read, error) ==
    [c EXCEPT !.pc = "thrown", !.reads = Append(@, read), !.error = error]

\* ---- SpecConfirm: one call, the timeout and the delays from bounded sets ----

TimeoutSteps == 3
Timeouts == {1000 * k : k \in 0..TimeoutSteps}
\* how long an RPC read takes, and how long sleep(1000) takes (never less)
ReadDelays == {0, 500}
SleepDelays == {1000, 1500}

ConfirmInit ==
    /\ swap = IdleSwap
    /\ SigIdle
    /\ EnvIdle
    /\ EtIdle
    /\ DecIdle
    /\ resend = IdleResend
    /\ HookIdle
    /\ confirm = IdleConfirm
    /\ chainTx \in {"none", "processed"}
    /\ fresh = IdleFresh

WaitForConfirmation ==
    /\ confirm.pc = "idle"
    /\ \E t \in Timeouts : confirm' = [confirm EXCEPT !.pc = "while", !.timeoutMs = t]
    /\ UNCHANGED <<swap, sigVars, handler, envVars, chainTx, fresh, etVars, decVars, resend, trade, positions, hreq,
                   signals, ingest_dedup, validQuote,
                   hookVars>>

\* One status read: the RPC call answers with the cluster's view or rejects.
ReadStatus(c, d, rejects) ==
    LET s == IF rejects THEN "rejected" ELSE getSignatureStatuses(chainTx)
        read == StatusRead(c.now, s)
        after == [c EXCEPT !.now = @ + d]
    IN  [ok |-> statusOk(s), read |-> read, after |-> after]

\* if (await statusOk()) return; inside the loop
PollStatus ==
    /\ confirm.pc = "while"
    /\ InTime(confirm.now, confirm.timeoutMs)
    /\ \E d \in ReadDelays, rejects \in BOOLEAN :
         LET r == ReadStatus(confirm, d, rejects)
         IN  confirm' =
               CASE r.ok = "true" -> Returned(r.after, r.read)
                 [] r.ok = "throws" -> Threw(r.after, r.read, "on-chain error")
                 [] r.ok = "rejects" -> Threw(r.after, r.read, "rpc error")
                 [] OTHER -> [r.after EXCEPT !.pc = "sleep", !.reads = Append(@, r.read)]
    /\ UNCHANGED <<swap, sigVars, handler, envVars, chainTx, fresh, etVars, decVars, resend, trade, positions, hreq,
                   signals, ingest_dedup, validQuote,
                   hookVars>>

\* await sleep(1000), then the loop condition again
Sleep ==
    /\ confirm.pc = "sleep"
    /\ \E d \in SleepDelays : confirm' = [confirm EXCEPT !.pc = "while", !.now = @ + d]
    /\ UNCHANGED <<swap, sigVars, handler, envVars, chainTx, fresh, etVars, decVars, resend, trade, positions, hreq,
                   signals, ingest_dedup, validQuote,
                   hookVars>>

\* if (await statusOk()) return; after the loop
FinalStatus ==
    /\ confirm.pc = "while"
    /\ ~InTime(confirm.now, confirm.timeoutMs)
    /\ \E d \in ReadDelays, rejects \in BOOLEAN :
         LET r == ReadStatus(confirm, d, rejects)
         IN  confirm' =
               CASE r.ok = "true" -> Returned(r.after, r.read)
                 [] r.ok = "throws" -> Threw(r.after, r.read, "on-chain error")
                 [] r.ok = "rejects" -> Threw(r.after, r.read, "rpc error")
                 [] OTHER -> [r.after EXCEPT !.pc = "lookup", !.reads = Append(@, r.read)]
    /\ UNCHANGED <<swap, sigVars, handler, envVars, chainTx, fresh, etVars, decVars, resend, trade, positions, hreq,
                   signals, ingest_dedup, validQuote,
                   hookVars>>

\* try { tx = await getTransaction(...); if (tx) return } catch {}; throw
FinalLookup ==
    /\ confirm.pc = "lookup"
    /\ \E d \in ReadDelays, rejects \in BOOLEAN :
         LET tx == IF rejects THEN "rejected" ELSE getTransaction(chainTx)
             read == TransactionRead(confirm.now, tx)
             after == [confirm EXCEPT !.now = @ + d]
         IN  confirm' = IF Landed(tx) THEN Returned(after, read)
                        ELSE Threw(after, read, "confirmation timeout")
    /\ UNCHANGED <<swap, sigVars, handler, envVars, chainTx, fresh, etVars, decVars, resend, trade, positions, hreq,
                   signals, ingest_dedup, validQuote,
                   hookVars>>

\* The cluster processes the transaction, with or without a program error,
\* and raises its commitment level.
ChainAdvances ==
    /\ confirm.pc \notin {"returned", "thrown"}
    /\ chainTx' \in CASE chainTx = "none" -> {"processed", "failed"}
                      [] chainTx = "processed" -> {"confirmed"}
                      [] chainTx = "confirmed" -> {"finalized"}
                      [] OTHER -> {}
    /\ UNCHANGED <<swap, sigVars, handler, envVars, confirm, fresh, etVars, decVars, resend, trade, positions, hreq,
                   signals, ingest_dedup, validQuote,
                   hookVars>>

ConfirmStep == WaitForConfirmation \/ PollStatus \/ Sleep \/ FinalStatus \/ FinalLookup
ConfirmNext ==
    \/ WaitForConfirmation
    \/ PollStatus
    \/ Sleep
    \/ FinalStatus
    \/ FinalLookup
    \/ ChainAdvances

SpecConfirm == ConfirmInit /\ [][ConfirmNext]_vars
\* Every await of the function settles: each RPC read answers or rejects and
\* the timer of sleep fires.
SpecConfirmLive == SpecConfirm /\ WF_vars(ConfirmStep)

ShowsConfirmed(read) == read.saw \in {"confirmed", "finalized", "tx"}
ShowsNothing(read) == read.saw \in {"null", "processed", "rejected"}

\* C14: a status read that reports an on-chain error is the last read the call
\* makes and the call throws at once; and once the call has returned normally
\* the transaction is not one that landed with an on-chain error, whichever
\* exit it took (poll loop, final status read, final transaction lookup).
C14_FailsOnChainError ==
    /\ \A i \in 1..Len(confirm.reads) :
         confirm.reads[i].saw = "err" =>
            /\ i = Len(confirm.reads)
            /\ confirm.pc = "thrown"
            /\ confirm.error = "on-chain error"
    /\ confirm.pc = "returned" => chainTx # "failed"

\* C15: the call always terminates; "confirmation timeout" is thrown only
\* when every read of the loop was issued before the deadline and showed
\* nothing, one status read issued at or after the deadline showed nothing
\* either, and one getTransaction lookup after it found nothing; and a read
\* that shows the transaction confirmed or finalized is the last one, after
\* which the call has returned normally.
C15_TimeoutOnlyAfterLateChecks ==
    LET n == Len(confirm.reads)
    IN  /\ confirm.error = "confirmation timeout" =>
             /\ confirm.pc = "thrown"
             /\ n >= 2
             /\ confirm.reads[n].call = "getTransaction"
             /\ confirm.reads[n - 1].call = "getSignatureStatuses"
             /\ confirm.reads[n - 1].at >= confirm.timeoutMs
             /\ \A i \in 1..n : ShowsNothing(confirm.reads[i])
             /\ \A i \in 1..(n - 2) :
                  /\ confirm.reads[i].call = "getSignatureStatuses"
                  /\ confirm.reads[i].at < confirm.timeoutMs
        /\ \A i \in 1..n :
             ShowsConfirmed(confirm.reads[i]) => i = n /\ confirm.pc = "returned"
C15_Terminates ==
    /\ []C15_TimeoutOnlyAfterLateChecks
    /\ (confirm.pc # "idle") ~> (confirm.pc \in {"returned", "thrown"})
\* A call that polled through the whole timeout, made both late checks and
\* timed out.
C15_Witness ==
    /\ confirm.error = "confirmation timeout"
    /\ confirm.timeoutMs = 2000
    /\ Len(confirm.reads) >= 4

(***************************************************************************)
(* getFreshQuote of src/tradeExecutor.ts: the loop over quoteGet requests. *)
(***************************************************************************)

SLIPPAGE_CAP_BUY_BPS == 1500
SLIPPAGE_CAP_SELL_BPS == 4000
MAX_QUOTE_AGE_MS == 1500
MAX_HOPS_BEFORE_REFRESH == 2
maxAttempts == 3

\* What one jupiterApi.quoteGet request gives: a rejection ("failed"), no
\* quote ("empty"), or a quote with its age (Date.now() - quoteStartTime) and
\* the length of its routePlan.
QuoteFailed == [kind |-> "failed", age |-> 0, hops |-> 0]
QuoteEmpty == [kind |-> "empty", age |-> 0, hops |-> 0]
QuoteResponse(age, hops) == [kind |-> "quote", age |-> age, hops |-> hops]

\* quoteAge > MAX_QUOTE_AGE_MS alone
IsStaleByAgeOnly(q) == q.age > MAX_QUOTE_AGE_MS
\* quoteAge > MAX_QUOTE_AGE_MS || hopCount > MAX_HOPS_BEFORE_REFRESH
IsStale(q) == q.age > MAX_QUOTE_AGE_MS \/ q.hops > MAX_HOPS_BEFORE_REFRESH

\* `continue`: the loop condition again, and the throw after the loop
Continue(f) ==
    IF f.attempts < maxAttempts THEN [f EXCEPT !.pc = "request"]
    ELSE [f EXCEPT !.pc = "thrown", !.error = "Failed to obtain a fresh quote."]

\* One iteration of the loop, from attempts++ to the return, throw or continue.
OnQuoteResponse(f, r) ==
    LET n == f.attempts + 1
        g == [f EXCEPT !.attempts = n, !.responses = Append(@, r)]
    IN  CASE r.kind = "failed" -> Continue(g)
          [] r.kind = "empty" ->
               IF n = maxAttempts
               THEN [g EXCEPT !.pc = "thrown",
                              !.error = "Failed to get quote from Jupiter after attempts."]
               ELSE Continue(g)
          [] OTHER ->
               IF IsStale(r)
               THEN IF n = maxAttempts THEN [g EXCEPT !.pc = "returned", !.quote = n]
                    ELSE Continue(g)
               ELSE [g EXCEPT !.pc = "returned", !.quote = n]

\* ---- SpecQuote: one call, the responses drawn from bounded sets ----

AgeSteps == 3
HopSteps == 3
QuoteAges == {750 * k : k \in 0..AgeSteps}
HopCounts == 1..HopSteps
QuoteResponses ==
    {QuoteFailed, QuoteEmpty} \cup {QuoteResponse(a, h) : a \in QuoteAges, h \in HopCounts}

QuoteInit ==
    /\ swap = IdleSwap
    /\ SigIdle
    /\ EnvIdle
    /\ EtIdle
    /\ DecIdle
    /\ resend = IdleResend
    /\ HookIdle
    /\ confirm = IdleConfirm
    /\ chainTx = "none"
    /\ fresh = IdleFresh

GetFreshQuote ==
    /\ fresh.pc = "idle"
    /\ \E a \in Actions :
         fresh' = [fresh EXCEPT
                     !.pc = "request", !.action = a,
                     !.slippageBps = IF a = "BUY" THEN SLIPPAGE_CAP_BUY_BPS
                                     ELSE SLIPPAGE_CAP_SELL_BPS]
    /\ UNCHANGED <<swap, sigVars, handler, envVars, confirm, chainTx, etVars, decVars, resend, trade, positions, hreq,
                   signals, ingest_dedup, validQuote,
                   hookVars>>

QuoteGetSettles ==
    /\ fresh.pc = "request"
    /\ \E r \in QuoteResponses : fresh' = OnQuoteResponse(fresh, r)
    /\ UNCHANGED <<swap, sigVars, handler, envVars, confirm, chainTx, etVars, decVars, resend, trade, positions, hreq,
                   signals, ingest_dedup, validQuote,
                   hookVars>>

QuoteNext == GetFreshQuote \/ QuoteGetSettles

SpecQuote == QuoteInit /\ [][QuoteNext]_vars
\* Every quoteGet request settles.
SpecQuoteLive == SpecQuote /\ WF_vars(QuoteNext)

\* The claim's condition on a quote, from its own words.
ExceedsThreshold(r) ==
    r.kind = "quote" /\ (r.age > MAX_QUOTE_AGE_MS \/ r.hops > MAX_HOPS_BEFORE_REFRESH)
QuoteCallEnded == fresh.pc \in {"returned", "thrown"}
\* the requests that followed a quote over a threshold
Refetches ==
    {i \in 2..Len(fresh.responses) : ExceedsThreshold(fresh.responses[i - 1])}

\* C16 (as stated): in a call that obtained a quote over the age or hop
\* threshold, exactly one request was a re-fetch after such a quote.
C16_ExactlyOneRefetch ==
    (QuoteCallEnded /\ \E i \in 1..Len(fresh.responses) : ExceedsThreshold(fresh.responses[i]))
        => Cardinality(Refetches) = 1

\* C16 (amended): a quote over the age or hop threshold is followed by a
\* re-fetch when it came from the first or second request, and is returned
\* when it came from the third; a call makes at most maxAttempts requests.
C16_RefetchWhileAttemptsLeft ==
    LET n == Len(fresh.responses)
    IN  /\ n = fresh.attempts
        /\ n <= maxAttempts
        /\ fresh.pc = "request" => n < maxAttempts
        /\ \A i \in 1..n :
             ExceedsThreshold(fresh.responses[i]) =>
                IF i < maxAttempts THEN i < n \/ fresh.pc = "request"
                ELSE fresh.pc = "returned" /\ fresh.quote = i
\* ... so the call always terminates.
C16_BoundedRefetch ==
    /\ []C16_RefetchWhileAttemptsLeft
    /\ (fresh.pc # "idle") ~> QuoteCallEnded
\* Two quotes over a threshold in a row: two re-fetches in one call.
C16_Witness ==
    /\ QuoteCallEnded
    /\ Cardinality(Refetches) = 2
    /\ fresh.responses[3].hops > MAX_HOPS_BEFORE_REFRESH

\* C17: once the call has ended, if any request returned a quote then the call
\* returned, and what it returned is the last quote obtained.
C17_ReturnsLastQuoteObtained ==
    LET got == {i \in 1..Len(fresh.responses) : fresh.responses[i].kind = "quote"}
    IN  (QuoteCallEnded /\ got # {}) =>
           /\ fresh.pc = "returned"
           /\ \A j \in got : j <= fresh.quote

(***************************************************************************)
(* executeTrade of src/unnamed/part_015, part_016 and part_017: the loop   *)
(* over slippageSettings, with the store helpers of part_000.  A call's    *)
(* ops lists, in order, the awaited operations it ran: the attempt index,  *)
(* the slippage of that attempt, and how the operation ended.              *)
(***************************************************************************)

EtVariants == {"part_015", "part_016", "part_017"}
slippageSettings == <<500, 1500, 2500>>

\* every attempt at the first setting
CurrentSlippageFlat(i) == slippageSettings[1]
\* const currentSlippage = slippageSettings[i], for the 0-based index i
CurrentSlippage(i) == slippageSettings[i + 1]

\* getOpenPositionBySignalId that returns the document whatever its status
getPositionBySignalId(doc, readOk) ==
    IF readOk /\ doc.status # "none" THEN "position" ELSE "null"
\* getOpenPositionBySignalId (part_000): the document when it exists and is
\* open; null when it does not, is not open, or the read failed
getOpenPositionBySignalId(doc, readOk) ==
    IF readOk /\ doc.status = "open" THEN "position" ELSE "null"

\* managePosition (part_000): set({status: 'open', ...}, {merge: true});
\* errors are logged and swallowed
managePosition(doc, writeOk) ==
    IF writeOk THEN PositionDoc("open", doc.opens + 1, doc.closes) ELSE doc
\* closePosition (part_000): update({status: 'closed', ...}), which fails on a
\* missing document; errors are logged and swallowed
closePosition(doc, writeOk) ==
    IF writeOk /\ doc.status # "none"
    THEN PositionDoc("closed", doc.opens, doc.closes + 1) ELSE doc

Op(op, i, res, saw) == [op |-> op, i |-> i, slip |-> CurrentSlippage(i), res |-> res, saw |-> saw]

IdleEt ==
    [variant |-> "none", action |-> "", pc |-> "idle", i |-> 0, ops |-> <<>>,
     swapped |-> FALSE, error |-> ""]

\* The first awaited operation of an attempt.
FirstOp(variant, action) ==
    CASE action = "SELL" -> "lookup"
      [] variant = "part_015" -> "decimals"
      [] OTHER -> "swap"

\* executeTrade up to the first await of attempt 0.  part_016 ignores a SELL.
StartEt(variant, action) ==
    IF variant = "part_016" /\ action # "BUY"
    THEN [IdleEt EXCEPT !.variant = variant, !.action = action, !.pc = "returned"]
    ELSE [IdleEt EXCEPT !.variant = variant, !.action = action,
                        !.pc = FirstOp(variant, action)]

Did(c, op) == [c EXCEPT !.ops = Append(@, op)]

\* The catch block of the loop: the last attempt goes on to log the Failed
\* record and rethrow, any other one to the next slippage setting.
EtCatch(c, op, error) ==
    IF c.i = Len(slippageSettings) - 1
    THEN [Did(c, op) EXCEPT !.pc = "logFailed", !.error = error, !.swapped = FALSE]
    ELSE [Did(c, op) EXCEPT !.pc = FirstOp(c.variant, c.action), !.i = @ + 1,
                            !.swapped = FALSE]

\* const position = await getOpenPositionBySignalId(signalId); if (!position) return
EtLookup(r) ==
    LET c == etrade[r]
    IN  /\ c.pc = "lookup"
        /\ \E readOk \in BOOLEAN :
             LET position == getOpenPositionBySignalId(etPosition, readOk)
                 op == Op("lookup", c.i, position, etPosition.status)
             IN  etrade' = [etrade EXCEPT ![r] =
                     IF position = "null" THEN [Did(c, op) EXCEPT !.pc = "returned"]
                     ELSE [Did(c, op) EXCEPT !.pc = "decimals"]]
        /\ UNCHANGED <<swap, sigVars, handler, envVars, confirm, chainTx, fresh, decVars, resend, etPosition,
                       trade, positions, hreq, signals, ingest_dedup, validQuote,
                   hookVars>>

\* await getTokenDecimals(...): before performSwap in part_015 and in every
\* SELL, after it in a BUY of part_016 and part_017
EtDecimals(r) ==
    LET c == etrade[r]
    IN  /\ c.pc = "decimals"
        /\ \E ok \in BOOLEAN :
             etrade' = [etrade EXCEPT ![r] =
                 IF ok
                 THEN [Did(c, Op("decimals", c.i, "ok", "")) EXCEPT
                          !.pc = IF c.swapped THEN "log" ELSE "swap"]
                 ELSE EtCatch(c, Op("decimals", c.i, "throws", ""),
                              "Could not fetch decimals for token")]
        /\ UNCHANGED <<swap, sigVars, handler, envVars, confirm, chainTx, fresh, decVars, resend, etPosition,
                       trade, positions, hreq, signals, ingest_dedup, validQuote,
                   hookVars>>

\* await performSwap(...): the quote, the broadcast and the confirmation
EtSwap(r) ==
    LET c == etrade[r]
    IN  /\ c.pc = "swap"
        /\ \E res \in {"ok", "no quote", "not confirmed"} :
             etrade' = [etrade EXCEPT ![r] =
                 IF res = "ok"
                 THEN [Did(c, Op("swap", c.i, "ok", "")) EXCEPT
                          !.swapped = TRUE,
                          !.pc = IF c.action = "BUY" /\ c.variant # "part_015"
                                 THEN "decimals" ELSE "log"]
                 ELSE EtCatch(c, Op("swap", c.i, res, ""), res)]
        /\ UNCHANGED <<swap, sigVars, handler, envVars, confirm, chainTx, fresh, decVars, resend, etPosition,
                       trade, positions, hreq, signals, ingest_dedup, validQuote,
                   hookVars>>

\* await logTradeToFirestore({txid, status: 'Success', ...}): a failed add is
\* logged and swallowed
EtLogSuccess(r) ==
    LET c == etrade[r]
    IN  /\ c.pc = "log"
        /\ \E addOk \in BOOLEAN :
             etrade' = [etrade EXCEPT ![r] =
                 [Did(c, Op("log", c.i, "Success", IF addOk THEN "stored" ELSE "lost"))
                    EXCEPT !.pc = "position"]]
        /\ UNCHANGED <<swap, sigVars, handler, envVars, confirm, chainTx, fresh, decVars, resend, etPosition,
                       trade, positions, hreq, signals, ingest_dedup, validQuote,
                   hookVars>>

\* await managePosition({status: 'open', ...}) / await closePosition(...); return
EtWritePosition(r) ==
    LET c == etrade[r]
    IN  /\ c.pc = "position"
        /\ \E writeOk \in BOOLEAN :
             LET doc == IF c.action = "BUY" THEN managePosition(etPosition, writeOk)
                        ELSE closePosition(etPosition, writeOk)
                 op == Op(IF c.action = "BUY" THEN "open" ELSE "close", c.i,
                          IF doc # etPosition THEN "written" ELSE "lost", etPosition.status)
             IN  /\ etPosition' = doc
                 /\ etrade' = [etrade EXCEPT ![r] = [Did(c, op) EXCEPT !.pc = "returned"]]
        /\ UNCHANGED <<swap, sigVars, handler, envVars, confirm, chainTx, fresh, decVars, resend,
                       trade, positions, hreq, signals, ingest_dedup, validQuote,
                   hookVars>>

\* await logTradeToFirestore({txid: null, status: 'Failed', ...}); throw error
EtLogFailed(r) ==
    LET c == etrade[r]
    IN  /\ c.pc = "logFailed"
        /\ \E addOk \in BOOLEAN :
             etrade' = [etrade EXCEPT ![r] =
                 [Did(c, Op("log", c.i, "Failed", IF addOk THEN "stored" ELSE "lost"))
                    EXCEPT !.pc = "thrown"]]
        /\ UNCHANGED <<swap, sigVars, handler, envVars, confirm, chainTx, fresh, decVars, resend, etPosition,
                       trade, positions, hreq, signals, ingest_dedup, validQuote,
                   hookVars>>

\* ---- SpecET: one call, or two SELL calls for the same signalId ----

EtInit ==
    /\ swap = IdleSwap
    /\ SigIdle
    /\ EnvIdle
    /\ confirm = IdleConfirm
    /\ chainTx = "none"
    /\ fresh = IdleFresh
    /\ DecIdle
    /\ resend = IdleResend
    /\ HookIdle
    /\ etPosition \in {PositionDoc("none", 0, 0), PositionDoc("open", 1, 0),
                       PositionDoc("closed", 1, 1)}
    /\ \E v \in EtVariants, a \in Actions, two \in BOOLEAN :
         etrade = [r \in Reqs |->
                     IF r = 1 \/ (two /\ a = "SELL") THEN StartEt(v, a) ELSE IdleEt]

EtNext ==
    \E r \in Reqs :
        \/ EtLookup(r)
        \/ EtDecimals(r)
        \/ EtSwap(r)
        \/ EtLogSuccess(r)
        \/ EtWritePosition(r)
        \/ EtLogFailed(r)

SpecET == EtInit /\ [][EtNext]_vars

OpsOf(r) == etrade[r].ops
OpIndexes(r, op, res) ==
    {k \in 1..Len(OpsOf(r)) : OpsOf(r)[k].op = op /\ OpsOf(r)[k].res = res}
Swapped(r) == OpIndexes(r, "swap", "ok") # {}

\* C22: in executeTrade of part_015 and part_017, a SELL whose lookup found
\* no open position for the signalId (none, or a closed one) returns right
\* there; when that is the call's first lookup the call has requested no
\* quote, performed no swap, written no trade record and closed no position.
C22_SellWithoutOpenPositionReturns ==
    \A r \in Reqs :
        (etrade[r].variant \in {"part_015", "part_017"} /\ etrade[r].action = "SELL") =>
            \A k \in 1..Len(OpsOf(r)) :
                (OpsOf(r)[k].op = "lookup" /\ OpsOf(r)[k].saw # "open") =>
                    /\ k = Len(OpsOf(r))
                    /\ etrade[r].pc = "returned"
                    /\ k = 1 => \A j \in 1..Len(OpsOf(r)) :
                                    OpsOf(r)[j].op \notin {"swap", "log", "close"}
C22_Witness ==
    /\ etrade[1].variant = "part_017"
    /\ etrade[1].action = "SELL"
    /\ etrade[1].pc = "returned"
    /\ Len(OpsOf(1)) = 1
    /\ OpsOf(1)[1].saw = "closed"
    /\ etrade[2].pc = "idle"

\* C23: of the executeTrade SELL calls (part_015) for one signalId at most one
\* performs a swap, and the position is not closed more often than opened.
C23_ConcurrentSellsSwapOnce ==
    (\A r \in Reqs : etrade[r].variant = "part_015" /\ etrade[r].action = "SELL") =>
        /\ Cardinality({r \in Reqs : Swapped(r)}) <= 1
        /\ etPosition.closes <= etPosition.opens

\* C24: in executeTrade of part_015, once getTokenDecimals has thrown the call
\* runs no further attempt: all that follows is the one Failed record.
C24_DecimalsFailureIsTerminal ==
    \A r \in Reqs :
        etrade[r].variant = "part_015" =>
            \A k \in OpIndexes(r, "decimals", "throws") :
                \A j \in (k + 1)..Len(OpsOf(r)) :
                    j = k + 1 /\ OpsOf(r)[j].op = "log" /\ OpsOf(r)[j].res = "Failed"

Failure(op) == op.res \in {"throws", "no quote", "not confirmed"}

\* C25: in executeTrade of part_015, attempts run at 500, 1500 and 2500 bps,
\* each only after the one before it failed and at a strictly higher
\* slippage; nothing but the records of the outcome follows a successful
\* swap; a call that returned after a swap wrote one Success record and no
\* Failed one, and a call that threw had three failed attempts and wrote one
\* Failed record and no Success one.
C25_EscalatingSlippageOneRecord ==
    \A r \in Reqs :
        etrade[r].variant = "part_015" =>
            LET ops == OpsOf(r)
                n == Len(ops)
                success == OpIndexes(r, "log", "Success")
                failed == OpIndexes(r, "log", "Failed")
            IN  /\ \A k \in 1..n : ops[k].slip = 500 + 1000 * ops[k].i /\ ops[k].i \in 0..2
                /\ \A k \in 1..(n - 1) :
                     \/ ops[k + 1].i = ops[k].i /\ ~Failure(ops[k])
                     \/ /\ ops[k].i = 2 /\ Failure(ops[k])
                        /\ k + 1 = n /\ ops[n].op = "log" /\ ops[n].res = "Failed"
                     \/ /\ ops[k + 1].i = ops[k].i + 1
                        /\ ops[k + 1].slip > ops[k].slip
                        /\ Failure(ops[k])
                /\ \A k \in OpIndexes(r, "swap", "ok") :
                     \A j \in (k + 1)..n : ops[j].op \in {"log", "open", "close"}
                /\ Cardinality(success) <= 1 /\ Cardinality(failed) <= 1
                /\ success = {} \/ failed = {}
                /\ (etrade[r].pc = "returned" /\ Swapped(r)) =>
                       Cardinality(success) = 1 /\ failed = {}
                /\ etrade[r].pc = "thrown" =>
                       /\ Cardinality(failed) = 1 /\ success = {}
                       /\ \A i \in 0..2 : \E k \in 1..n : ops[k].i = i /\ Failure(ops[k])
C25_Witness ==
    /\ etrade[1].variant = "part_015"
    /\ etrade[1].action = "BUY"
    /\ etrade[1].pc = "returned"
    /\ \E k \in OpIndexes(1, "swap", "ok") : OpsOf(1)[k].slip = 2500

\* C30: one executeTrade BUY call of part_016 or part_017 has at most one
\* performSwap that returned successfully.
C30_BuySwapsAtMostOnce ==
    \A r \in Reqs :
        (etrade[r].variant \in {"part_016", "part_017"} /\ etrade[r].action = "BUY") =>
            Cardinality(OpIndexes(r, "swap", "ok")) <= 1

(***************************************************************************)
(* src/tokenDecimals.ts: the resolver returned by attachDecimalsResolver.  *)
(* tried lists, per call, the lookups made in order and what each gave.    *)
(***************************************************************************)

\* Mint addresses: two of the pre-known table, one unknown mint, and a string
\* that is no base58 public key.
Mints == {"wSOL", "USDC", "TOK", "not-a-key"}
PREKNOWN_DECIMALS == [m \in {"wSOL", "USDC"} |-> IF m = "wSOL" THEN 9 ELSE 6]
\* new PublicKey(mintAddress) succeeds
IsPublicKey(m) == m # "not-a-key"

\* The network lookups in the order the code makes them; getMint is tried with
\* the Token program and then with Token-2022.
Lookups ==
    <<"primary getMint Token", "primary getMint Token-2022",
      "backup getMint Token", "backup getMint Token-2022", "backup getTokenSupply",
      "Helius DAS", "Jupiter v2", "primary getTokenSupply">>
UsesBackup(k) == k \in 3..5

\* What one lookup gives: it fails (an exception or an HTTP error, caught by
\* the helper), it answers without decimals, or it answers with a number.
LookupFails == [kind |-> "fails", d |-> 0]
LookupNothing == [kind |-> "nothing", d |-> 0]
LookupValue(d) == [kind |-> "value", d |-> d]

\* if (d) ...: a truthiness test, under which 0 decimals counts as nothing
FoundTruthy(r) == r.kind = "value" /\ r.d # 0
\* typeof d === 'number' in the helpers, d != null in the resolver
Found(r) == r.kind = "value"

\* The next lookup after lookup k gave nothing: the backup ones only when a
\* backup connection is configured.  0 when none is left.
RECURSIVE NextLookup(_, _)
NextLookup(k, backup) ==
    IF k >= Len(Lookups) THEN 0
    ELSE IF UsesBackup(k + 1) /\ ~backup THEN NextLookup(k + 1, backup)
    ELSE k + 1

Tried(source, result) == [source |-> source, result |-> result]

\* getTokenDecimals up to its first await: the cache, the pre-known table, the
\* public key.
StartDec(c, cache, mint) ==
    LET call == [c EXCEPT !.mintAddress = mint, !.calls = @ + 1, !.tried = <<>>,
                          !.d = <<>>, !.error = ""]
    IN  IF mint \in DOMAIN cache
        THEN [call |-> [call EXCEPT !.pc = "returned", !.d = <<cache[mint]>>,
                                    !.tried = <<Tried("cache", LookupValue(cache[mint]))>>],
              cache |-> cache]
        ELSE IF mint \in DOMAIN PREKNOWN_DECIMALS
        THEN [call |-> [call EXCEPT
                          !.pc = "returned", !.d = <<PREKNOWN_DECIMALS[mint]>>,
                          !.tried = <<Tried("preknown", LookupValue(PREKNOWN_DECIMALS[mint]))>>],
              cache |-> (mint :> PREKNOWN_DECIMALS[mint]) @@ cache]
        ELSE IF ~IsPublicKey(mint)
        THEN [call |-> [call EXCEPT !.pc = "thrown", !.error = "Invalid public key input"],
              cache |-> cache]
        ELSE [call |-> [call EXCEPT !.pc = "lookup 1"], cache |-> cache]

LookupPc(k) == "lookup " \o ToString(k)
AtLookup(c) == {k \in 1..Len(Lookups) : c.pc = LookupPc(k)}

\* Lookup k settles with result r.
OnLookup(c, cache, k, r) ==
    LET call == [c EXCEPT !.tried = Append(@, Tried(Lookups[k], r))]
        next == NextLookup(k, c.backup)
    IN  IF Found(r)
        THEN [call |-> [call EXCEPT !.pc = "returned", !.d = <<r.d>>],
              cache |-> (c.mintAddress :> r.d) @@ cache]
        ELSE IF next = 0
        THEN [call |-> [call EXCEPT
                          !.pc = "thrown",
                          !.error = "Could not fetch decimals after all fallbacks"],
              cache |-> cache]
        ELSE [call |-> [call EXCEPT !.pc = LookupPc(next)], cache |-> cache]

\* ---- SpecDecimals: calls of one resolver, one after another ----

MaxCalls == 2
DecimalValues == {0, 6}
LookupResults == {LookupFails, LookupNothing} \cup {LookupValue(d) : d \in DecimalValues}

DecInit ==
    /\ swap = IdleSwap
    /\ SigIdle
    /\ EnvIdle
    /\ confirm = IdleConfirm
    /\ chainTx = "none"
    /\ fresh = IdleFresh
    /\ EtIdle
    /\ resend = IdleResend
    /\ HookIdle
    /\ \E b \in BOOLEAN : dec = [IdleDec EXCEPT !.backup = b]
    /\ decimalCache = <<>>

GetTokenDecimals ==
    /\ dec.pc \in {"idle", "returned", "thrown"}
    /\ dec.calls < MaxCalls
    /\ \E m \in Mints :
         LET x == StartDec(dec, decimalCache, m)
         IN  dec' = x.call /\ decimalCache' = x.cache
    /\ UNCHANGED <<swap, sigVars, handler, envVars, confirm, chainTx, fresh, etVars, resend,
                   trade, positions, hreq, signals, ingest_dedup, validQuote,
                   hookVars>>

LookupSettles ==
    /\ \E k \in AtLookup(dec), r \in LookupResults :
         LET x == OnLookup(dec, decimalCache, k, r)
         IN  dec' = x.call /\ decimalCache' = x.cache
    /\ UNCHANGED <<swap, sigVars, handler, envVars, confirm, chainTx, fresh, etVars, resend,
                   trade, positions, hreq, signals, ingest_dedup, validQuote,
                   hookVars>>

DecNext == GetTokenDecimals \/ LookupSettles

SpecDecimals == DecInit /\ [][DecNext]_vars

\* The network sources in the claimed order, for a resolver with or without a
\* backup connection.
SourceOrder(backup) ==
    IF backup THEN Lookups ELSE SubSeq(Lookups, 1, 2) \o SubSeq(Lookups, 6, 8)
GaveValue(t) == t.result.kind = "value"
NetworkCall == dec.tried # <<>> => dec.tried[1].source \notin {"cache", "preknown"}
Exhausted ==
    /\ Len(dec.tried) = Len(SourceOrder(dec.backup))
    /\ \A j \in 1..Len(dec.tried) : ~GaveValue(dec.tried[j])

\* The part of C26 about order, first value and caching: the cache and the
\* pre-known table answer before any lookup; lookups are made in the fixed
\* order; every lookup made follows lookups that gave nothing (a failed lookup
\* included); the value returned is the one of the last lookup made and it is
\* in the cache under the mint address.
FirstValueInOrder ==
    /\ dec.calls > 0 /\ dec.mintAddress \in DOMAIN PREKNOWN_DECIMALS =>
           /\ dec.pc = "returned"
           /\ dec.d = <<PREKNOWN_DECIMALS[dec.mintAddress]>>
           /\ Len(dec.tried) = 1 /\ dec.tried[1].source \in {"cache", "preknown"}
    /\ AtLookup(dec) # {} => dec.mintAddress \notin DOMAIN decimalCache
    /\ NetworkCall =>
           /\ Len(dec.tried) <= Len(SourceOrder(dec.backup))
           /\ \A j \in 1..Len(dec.tried) :
                 /\ dec.tried[j].source = SourceOrder(dec.backup)[j]
                 /\ j < Len(dec.tried) => ~GaveValue(dec.tried[j])
           /\ \A k \in AtLookup(dec) :
                 /\ Lookups[k] = SourceOrder(dec.backup)[Len(dec.tried) + 1]
                 /\ \A j \in 1..Len(dec.tried) : ~GaveValue(dec.tried[j])
    /\ dec.pc = "returned" =>
           /\ dec.tried # <<>>
           /\ GaveValue(dec.tried[Len(dec.tried)])
           /\ dec.d = <<dec.tried[Len(dec.tried)].result.d>>
           /\ dec.mintAddress \in DOMAIN decimalCache
           /\ decimalCache[dec.mintAddress] = dec.d[1]
    /\ dec.pc # "returned" => dec.d = <<>>

\* C26 as stated: sources in the fixed order, first value returned and cached,
\* and a throw only when every source has returned nothing.
C26_ThrowsOnlyWhenEverySourceEmpty ==
    /\ FirstValueInOrder
    /\ dec.pc = "thrown" => Exhausted

\* C26 amended: as above for a mint address that is a valid public key; for
\* one that is not, new PublicKey throws before any lookup is made.
C26_ThrowsOnlyWhenEverySourceEmptyOrBadKey ==
    /\ FirstValueInOrder
    /\ dec.pc = "thrown" =>
           IF IsPublicKey(dec.mintAddress) THEN Exhausted ELSE dec.tried = <<>>

\* A call that returned 0 decimals found by a later source after an earlier
\* source had failed.
C26_Witness ==
    /\ dec.pc = "returned"
    /\ dec.d = <<0>>
    /\ Len(dec.tried) >= 3
    /\ \E j \in 1..(Len(dec.tried) - 1) : dec.tried[j].result.kind = "fails"

\* A call that threw after every configured source gave nothing.
C26_WitnessThrown ==
    /\ dec.pc = "thrown" /\ IsPublicKey(dec.mintAddress) /\ dec.backup
    /\ Len(dec.tried) = Len(Lookups)

(***************************************************************************)
(* executeTradeFromSignal of src/unnamed/part_011: the resend rounds, from *)
(* the point where the quote and the swap instructions have been obtained. *)
(* A round's transaction is "pending" from its broadcast until the cluster *)
(* executes it ("landed"), executes it with a program error ("failed") or  *)
(* its blockhash expires ("expired").                                      *)
(***************************************************************************)

RESEND_ROUNDS == 4
FEE_MULTIPLIER_PER_ROUND == <<1, 2, 3, 5>>
FEE_FALLBACK == 500000
FEE_MIN == 5000
FEE_MAX == 2000000

\* getPriorityFeeEstimate: data.result?.priorityFeeEstimate || 500_000, clamped
\* to [5_000, 2_000_000]; 500_000 when the request fails
getPriorityFeeEstimate(estimate, fetchOk) ==
    IF ~fetchOk THEN FEE_FALLBACK
    ELSE LET fee == IF estimate = <<>> \/ estimate = <<0>> THEN FEE_FALLBACK ELSE estimate[1]
         IN  Min(Max(fee, FEE_MIN), FEE_MAX)

\* Math.floor(baseFee * bump) for the 0-based round
PriorityFee(baseFee, round) ==
    baseFee * FEE_MULTIPLIER_PER_ROUND[Min(round, Len(FEE_MULTIPLIER_PER_ROUND) - 1) + 1]

\* waitForStatusWithTimeout: true when a poll shows confirmationStatus
\* 'confirmed' or 'finalized' (s.err is not read); false at the timeout
waitForStatusWithTimeout(tx) == tx \in {"landed", "failed"}

ResendCatch(c, error) == [c EXCEPT !.pc = "catch", !.error = error]

\* ---- SpecResend: one call, estimates and outcomes from bounded sets ----

FeeEstimates == {<<>>, <<1000>>, <<9000000>>}

ResendInit ==
    /\ swap = IdleSwap
    /\ SigIdle
    /\ EnvIdle
    /\ confirm = IdleConfirm
    /\ chainTx = "none"
    /\ fresh = IdleFresh
    /\ EtIdle
    /\ DecIdle
    /\ resend = IdleResend
    /\ HookIdle

ExecuteTradeFromSignal11 ==
    /\ resend.pc = "idle"
    /\ \E a \in Actions : resend' = [resend EXCEPT !.pc = "round", !.action = a]
    /\ UNCHANGED <<swap, sigVars, handler, envVars, confirm, chainTx, fresh, etVars, decVars,
                   trade, positions, hreq, signals, ingest_dedup, validQuote,
                   hookVars>>

\* One round up to the broadcast: blockhash, fee estimate, simulation, the
\* signed transaction sent by RPC (and the Helius sender).
ResendRoundSends ==
    /\ resend.pc = "round"
    /\ \E estimate \in FeeEstimates, fetchOk \in BOOLEAN, simOk \in BOOLEAN, sent \in BOOLEAN :
         LET fee == PriorityFee(getPriorityFeeEstimate(estimate, fetchOk), resend.round)
             c == [resend EXCEPT !.fees = Append(@, fee)]
         IN  resend' =
               IF ~simOk THEN ResendCatch(c, "Simulation failed")
               ELSE IF ~sent
               THEN ResendCatch([c EXCEPT !.txs = Append(@, "unsent")],
                                "All transaction send attempts failed.")
               ELSE [c EXCEPT !.pc = "confirm", !.txs = Append(@, "pending")]
    /\ UNCHANGED <<swap, sigVars, handler, envVars, confirm, chainTx, fresh, etVars, decVars,
                   trade, positions, hreq, signals, ingest_dedup, validQuote,
                   hookVars>>

\* const ok = await waitForStatusWithTimeout(sig, ROUND_CONFIRM_TIMEOUT_MS);
\* then break, the next round, or the throw after the last round
ResendConfirm ==
    /\ resend.pc = "confirm"
    /\ \E rejects \in BOOLEAN :
         LET k == Len(resend.txs)
         IN  resend' =
               IF rejects THEN ResendCatch(resend, "getSignatureStatuses failed")
               ELSE IF waitForStatusWithTimeout(resend.txs[k])
               THEN [resend EXCEPT !.pc = "record", !.finalSig = k]
               ELSE IF resend.round + 1 < RESEND_ROUNDS
               THEN [resend EXCEPT !.pc = "round", !.round = @ + 1]
               ELSE ResendCatch(resend, "Failed to confirm transaction before blockhash expiry")
    /\ UNCHANGED <<swap, sigVars, handler, envVars, confirm, chainTx, fresh, etVars, decVars,
                   trade, positions, hreq, signals, ingest_dedup, validQuote,
                   hookVars>>

\* managePosition (open for a BUY, after getTokenDecimals; closed for a SELL)
\* and logTradeToFirestore({status: 'Success'})
ResendRecord ==
    /\ resend.pc = "record"
    /\ \E decimalsOk \in BOOLEAN :
         resend' =
           IF resend.action = "BUY" /\ ~decimalsOk
           THEN ResendCatch(resend, "Could not fetch decimals")
           ELSE [resend EXCEPT !.pc = "done", !.records = Append(@, "Success"),
                               !.position = IF resend.action = "BUY" THEN "open" ELSE "closed"]
    /\ UNCHANGED <<swap, sigVars, handler, envVars, confirm, chainTx, fresh, etVars, decVars,
                   trade, positions, hreq, signals, ingest_dedup, validQuote,
                   hookVars>>

\* catch: logTradeToFirestore({txid: null, status: 'Failed'})
ResendFailed ==
    /\ resend.pc = "catch"
    /\ resend' = [resend EXCEPT !.pc = "thrown", !.records = Append(@, "Failed")]
    /\ UNCHANGED <<swap, sigVars, handler, envVars, confirm, chainTx, fresh, etVars, decVars,
                   trade, positions, hreq, signals, ingest_dedup, validQuote,
                   hookVars>>

\* The cluster settles a broadcast transaction: it may do so in a later round
\* than the one that sent it, as long as its blockhash is valid.
ResendTxSettles ==
    /\ \E k \in 1..Len(resend.txs), to \in {"landed", "failed", "expired"} :
         /\ resend.txs[k] = "pending"
         /\ resend' = [resend EXCEPT !.txs[k] = to]
    /\ UNCHANGED <<swap, sigVars, handler, envVars, confirm, chainTx, fresh, etVars, decVars,
                   trade, positions, hreq, signals, ingest_dedup, validQuote,
                   hookVars>>

ResendNext ==
    \/ ExecuteTradeFromSignal11
    \/ ResendRoundSends
    \/ ResendConfirm
    \/ ResendRecord
    \/ ResendFailed
    \/ ResendTxSettles

SpecResend == ResendInit /\ [][ResendNext]_vars

\* C27: of the transactions broadcast across the rounds of one signal at most
\* one lands on-chain.
C27_AtMostOneRoundLands ==
    Cardinality({k \in 1..Len(resend.txs) : resend.txs[k] = "landed"}) <= 1

\* C28: the transaction taken as confirmed is one that executed without
\* error, and so is the one behind a Success record and the position written.
C28_ConfirmedMeansSucceeded ==
    /\ resend.finalSig # 0 => resend.txs[resend.finalSig] = "landed"
    /\ (resend.pc = "done" /\ resend.position # "none") =>
           resend.txs[resend.finalSig] = "landed"

\* C29: the compute-unit price of each round is >= that of the round before.
C29_PriorityFeeNonDecreasing ==
    \A k \in 1..(Len(resend.fees) - 1) : resend.fees[k + 1] >= resend.fees[k]


(***************************************************************************)
(* getValidQuote of src/unnamed/part_019.  Times are in milliseconds.      *)
(* Date.now() is the time since 1970-01-01; a response carries age, the    *)
(* time since Jupiter produced the quote, and timeTaken, the time Jupiter  *)
(* spent computing it (quote.timeTaken * 1000, absent when not reported).  *)
(***************************************************************************)

QUOTE_STALENESS_THRESHOLD_MS == 2000
MAX_QUOTE_RETRIES == 3

\* What one jupiterApi.quoteGet gives: it rejects, it resolves with null, or
\* it resolves with a quote.
ValidQuoteRejected == [kind |-> "rejected", age |-> 0, timeTaken |-> <<>>, hops |-> 0]
ValidQuoteNull == [kind |-> "null", age |-> 0, timeTaken |-> <<>>, hops |-> 0]
ValidQuoteResponse(age, timeTaken, hops) ==
    [kind |-> "quote", age |-> age, timeTaken |-> timeTaken, hops |-> hops]

\* const quoteAge = Date.now() - ((quote.timeTaken ?? 0) * 1000)
QuoteAge(now, q) == now - (IF q.timeTaken = <<>> THEN 0 ELSE q.timeTaken[1])
isStale(now, q) == QuoteAge(now, q) > QUOTE_STALENESS_THRESHOLD_MS
\* (quote.routePlan?.length ?? 0) > 2
hasComplexRoute(q) == q.hops > 2

\* One pass of the while loop once quoteGet has settled with q at time now.
OnValidQuoteResponse(v, now, q) ==
    LET u == [v EXCEPT !.requests = Append(@, q)]
    IN  IF q.kind = "quote" /\ ~isStale(now, q) /\ ~hasComplexRoute(q)
        THEN [u EXCEPT !.pc = "returned", !.quote = Len(u.requests)]
        ELSE IF v.retries + 1 < MAX_QUOTE_RETRIES
        THEN [u EXCEPT !.retries = @ + 1]
        ELSE [u EXCEPT !.retries = @ + 1, !.pc = "thrown"]

\* ---- SpecValidQuote: one call ----

\* Date.now() of a running server, within the range of the model's integers
ClockReads == {1700000000, 1700001000}
ValidQuoteAges == {40, 2500}
TimesTaken == {<<>>, <<35>>}
ValidQuoteHops == {1, 3}
ValidQuoteResponses ==
    {ValidQuoteRejected, ValidQuoteNull}
        \cup {ValidQuoteResponse(a, t, h) :
                 a \in ValidQuoteAges, t \in TimesTaken, h \in ValidQuoteHops}

ValidQuoteInit ==
    /\ swap = IdleSwap
    /\ SigIdle
    /\ EnvIdle
    /\ confirm = IdleConfirm
    /\ chainTx = "none"
    /\ fresh = IdleFresh
    /\ EtIdle
    /\ DecIdle
    /\ resend = IdleResend
    /\ validQuote = IdleValidQuote
    /\ wreq = <<>>
    /\ mem = IdleMem

GetValidQuote ==
    /\ validQuote.pc = "idle"
    /\ validQuote' = [validQuote EXCEPT !.pc = "quoteGet"]
    /\ UNCHANGED <<swap, sigVars, handler, envVars, confirm, chainTx, fresh, etVars, decVars,
                   resend, hookVars, trade, positions, hreq, signals, ingest_dedup>>

ValidQuoteGetSettles ==
    /\ validQuote.pc = "quoteGet"
    /\ \E now \in ClockReads, q \in ValidQuoteResponses :
         validQuote' = OnValidQuoteResponse(validQuote, now, q)
    /\ UNCHANGED <<swap, sigVars, handler, envVars, confirm, chainTx, fresh, etVars, decVars,
                   resend, hookVars, trade, positions, hreq, signals, ingest_dedup>>

ValidQuoteNext == GetValidQuote \/ ValidQuoteGetSettles

SpecValidQuote == ValidQuoteInit /\ [][ValidQuoteNext]_vars

\* A request whose quote was produced within the staleness threshold and has
\* a route of at most 2 hops.
FreshAndSimple(q) ==
    q.kind = "quote" /\ q.age <= QUOTE_STALENESS_THRESHOLD_MS /\ q.hops <= 2

\* C39: getValidQuote returns the quote of its first request whenever that
\* quote was produced within QUOTE_STALENESS_THRESHOLD_MS and has at most 2
\* hops, and it throws after MAX_QUOTE_RETRIES only if every request failed,
\* was stale or had a complex route.
C39_FirstFreshQuoteReturned ==
    /\ (validQuote.requests # <<>> /\ FreshAndSimple(validQuote.requests[1])) =>
           (validQuote.pc = "returned" /\ validQuote.quote = 1)
    /\ validQuote.pc = "thrown" =>
           /\ Len(validQuote.requests) = MAX_QUOTE_RETRIES
           /\ \A i \in 1..Len(validQuote.requests) : ~FreshAndSimple(validQuote.requests[i])


(***************************************************************************)
(* The handlers that guard against duplicates by reading first and writing *)
(* later: the route of src/unnamed/part_002 (seenInMemory, isProcessed,    *)
(* markInProgress) and the third route of src/unnamed/part_004             *)
(* (ingest_dedup read at the start, written at the end).  A request is     *)
(* modelled from the point where its payload has been accepted.  Every     *)
(* action runs the handler from one await to the next.                     *)
(***************************************************************************)

\* part_004: const USE_EXECUTOR = true
USE_EXECUTOR == TRUE

\* dedupeKey(signalId, dir) of part_002; idKey of part_004 is the signal id
dedupeKey(signalId, dir) == signalId \o "|" \o dir

NewHook(signalId, dir) ==
    [signalId |-> signalId, dir |-> dir, pc |-> "new", resp |-> "none", execCalls |-> 0,
     execSig |-> <<>>, after |-> {}, error |-> ""]

HookDone(r) == wreq[r].pc = "done"
HookAnswer(q, resp) == [q EXCEPT !.pc = "done", !.resp = resp]

\* isProcessed: the stored status is "executed" or "in_progress"
isProcessed(events, key) ==
    key \in DOMAIN events /\ events[key] \in {"executed", "in_progress"}

\* part_002: the request arrives; the in-memory guard; isProcessed is called.
P2Receive(r) ==
    LET q == wreq[r]
        u == [q EXCEPT !.after = {x \in Reqs : HookDone(x)}]
    IN  /\ handler = "part_002"
        /\ q.pc = "new"
        /\ wreq' = [wreq EXCEPT ![r] =
               IF dedupeKey(q.signalId, q.dir) \in mem.seenInMemory
               THEN HookAnswer(u, "duplicate memory")
               ELSE [u EXCEPT !.pc = "isProcessed"]]
    /\ UNCHANGED <<swap, enableSells, trades, req, botStatus, solBalance, needsAta, tokenBalance,
                   heliusApiKey, confirm, chainTx, fresh, etVars, decVars, resend, validQuote,
                   trade, hreq, signals, handler, signal_events, ingest_dedup, positions, mem>>

\* part_002: isProcessed settles; seenInMemory.add(memKey); markInProgress is
\* called.
P2IsProcessed(r) ==
    LET q == wreq[r]
        key == dedupeKey(q.signalId, q.dir)
    IN  /\ handler = "part_002"
        /\ q.pc = "isProcessed"
        /\ \E readOk \in BOOLEAN :
             IF ~readOk
             THEN /\ wreq' = [wreq EXCEPT ![r] = [q EXCEPT !.pc = "catch", !.error = "get failed"]]
                  /\ mem' = mem
             ELSE /\ mem' = [mem EXCEPT !.seenInMemory = @ \cup {key}]
                  /\ wreq' = [wreq EXCEPT ![r] =
                         IF isProcessed(signal_events, key) THEN HookAnswer(q, "duplicate db")
                         ELSE [q EXCEPT !.pc = "markInProgress"]]
    /\ UNCHANGED <<swap, enableSells, trades, req, botStatus, solBalance, needsAta, tokenBalance,
                   heliusApiKey, confirm, chainTx, fresh, etVars, decVars, resend, validQuote,
                   trade, hreq, signals, handler, signal_events, ingest_dedup, positions>>

\* part_002: markInProgress settles; a SELL with sells disabled is logged as
\* skipped, anything else goes to executeSwap.
P2MarkInProgress(r) ==
    LET q == wreq[r]
        key == dedupeKey(q.signalId, q.dir)
    IN  /\ handler = "part_002"
        /\ q.pc = "markInProgress"
        /\ \E setOk \in BOOLEAN :
             IF ~setOk
             THEN /\ wreq' = [wreq EXCEPT ![r] = [q EXCEPT !.pc = "catch", !.error = "set failed"]]
                  /\ signal_events' = signal_events
             ELSE /\ signal_events' = (key :> "in_progress") @@ signal_events
                  /\ wreq' = [wreq EXCEPT ![r] =
                         IF q.dir = "SELL" /\ ~enableSells THEN [q EXCEPT !.pc = "skip"]
                         ELSE [q EXCEPT !.pc = "executeSwap", !.execCalls = @ + 1]]
    /\ UNCHANGED <<swap, enableSells, trades, req, botStatus, solBalance, needsAta, tokenBalance,
                   heliusApiKey, confirm, chainTx, fresh, etVars, decVars, resend, validQuote,
                   trade, hreq, signals, handler, ingest_dedup, positions, mem>>

\* part_002: logTradeToFirestore({status: "Skipped"}), markFailed("SELL
\* disabled by config"), and the answer.
P2Skip(r) ==
    LET q == wreq[r]
        key == dedupeKey(q.signalId, q.dir)
    IN  /\ handler = "part_002"
        /\ q.pc = "skip"
        /\ signal_events' = (key :> "failed") @@ signal_events
        /\ wreq' = [wreq EXCEPT ![r] = HookAnswer(q, "skipped")]
    /\ UNCHANGED <<swap, enableSells, trades, req, botStatus, solBalance, needsAta, tokenBalance,
                   heliusApiKey, confirm, chainTx, fresh, etVars, decVars, resend, validQuote,
                   trade, hreq, signals, handler, ingest_dedup, positions, mem>>

\* part_002: executeSwap settles with a signature or rejects.
P2ExecuteSwap(r) ==
    LET q == wreq[r]
    IN  /\ handler = "part_002"
        /\ q.pc = "executeSwap"
        /\ \E ok \in BOOLEAN :
             wreq' = [wreq EXCEPT ![r] =
                 IF ok THEN [q EXCEPT !.pc = "mirror", !.execSig = <<r>>]
                 ELSE [q EXCEPT !.pc = "catch", !.error = "executeSwap failed"]]
    /\ UNCHANGED <<swap, enableSells, trades, req, botStatus, solBalance, needsAta, tokenBalance,
                   heliusApiKey, confirm, chainTx, fresh, etVars, decVars, resend, validQuote,
                   trade, hreq, signals, handler, signal_events, ingest_dedup, positions, mem>>

\* part_002: the confirmation probe, the trade log, the position (opened for
\* a BUY under the signature), markExecuted, and the answer.
P2Mirror(r) ==
    LET q == wreq[r]
        key == dedupeKey(q.signalId, q.dir)
    IN  /\ handler = "part_002"
        /\ q.pc = "mirror"
        /\ positions' = IF q.dir = "BUY"
                        THEN (ToString(r) :> [status |-> "open", txid |-> q.execSig]) @@ positions
                        ELSE positions
        /\ signal_events' = (key :> "executed") @@ signal_events
        /\ wreq' = [wreq EXCEPT ![r] = HookAnswer(q, "executed")]
    /\ UNCHANGED <<swap, enableSells, trades, req, botStatus, solBalance, needsAta, tokenBalance,
                   heliusApiKey, confirm, chainTx, fresh, etVars, decVars, resend, validQuote,
                   trade, hreq, signals, handler, ingest_dedup, mem>>

\* part_002: catch: markFailed(...).catch(() => {}) and the 500 answer.
P2Catch(r) ==
    LET q == wreq[r]
        key == dedupeKey(q.signalId, q.dir)
    IN  /\ handler = "part_002"
        /\ q.pc = "catch"
        /\ \E setOk \in BOOLEAN :
             signal_events' = IF setOk THEN (key :> "failed") @@ signal_events
                              ELSE signal_events
        /\ wreq' = [wreq EXCEPT ![r] = HookAnswer(q, "500")]
    /\ UNCHANGED <<swap, enableSells, trades, req, botStatus, solBalance, needsAta, tokenBalance,
                   heliusApiKey, confirm, chainTx, fresh, etVars, decVars, resend, validQuote,
                   trade, hreq, signals, handler, ingest_dedup, positions, mem>>

\* part_004: the request arrives and dedupRef.get() is called.
P4Receive(r) ==
    LET q == wreq[r]
    IN  /\ handler = "part_004"
        /\ q.pc = "new"
        /\ wreq' = [wreq EXCEPT ![r] =
               [q EXCEPT !.pc = "dedupGet", !.after = {x \in Reqs : HookDone(x)}]]
    /\ UNCHANGED <<swap, enableSells, trades, req, botStatus, solBalance, needsAta, tokenBalance,
                   heliusApiKey, confirm, chainTx, fresh, etVars, decVars, resend, validQuote,
                   trade, hreq, signals, handler, signal_events, ingest_dedup, positions, mem>>

\* part_004: dedupSnap.exists answers {dedup: true}; otherwise the raw copy
\* is written.
P4DedupGet(r) ==
    LET q == wreq[r]
    IN  /\ handler = "part_004"
        /\ q.pc = "dedupGet"
        /\ \E readOk \in BOOLEAN :
             wreq' = [wreq EXCEPT ![r] =
                 IF ~readOk THEN HookAnswer([q EXCEPT !.error = "get failed"], "500")
                 ELSE IF q.signalId \in DOMAIN ingest_dedup THEN HookAnswer(q, "dedup")
                 ELSE [q EXCEPT !.pc = "raw"]]
    /\ UNCHANGED <<swap, enableSells, trades, req, botStatus, solBalance, needsAta, tokenBalance,
                   heliusApiKey, confirm, chainTx, fresh, etVars, decVars, resend, validQuote,
                   trade, hreq, signals, handler, signal_events, ingest_dedup, positions, mem>>

\* part_004: the raw copy is stored; with USE_EXECUTOR execSwapAdapter is
\* called.
P4Raw(r) ==
    LET q == wreq[r]
    IN  /\ handler = "part_004"
        /\ q.pc = "raw"
        /\ \E setOk \in BOOLEAN :
             wreq' = [wreq EXCEPT ![r] =
                 IF ~setOk THEN HookAnswer([q EXCEPT !.error = "set failed"], "500")
                 ELSE IF USE_EXECUTOR THEN [q EXCEPT !.pc = "execSwapAdapter", !.execCalls = @ + 1]
                 ELSE [q EXCEPT !.pc = "position"]]
    /\ UNCHANGED <<swap, enableSells, trades, req, botStatus, solBalance, needsAta, tokenBalance,
                   heliusApiKey, confirm, chainTx, fresh, etVars, decVars, resend, validQuote,
                   trade, hreq, signals, handler, signal_events, ingest_dedup, positions, mem>>

\* part_004: execSwapAdapter settles; its error is caught and logged, and the
\* handler continues "to mirror intent below".
P4ExecSwapAdapter(r) ==
    LET q == wreq[r]
    IN  /\ handler = "part_004"
        /\ q.pc = "execSwapAdapter"
        /\ \E ok \in BOOLEAN :
             wreq' = [wreq EXCEPT ![r] =
                 [q EXCEPT !.pc = "position", !.execSig = IF ok THEN <<r>> ELSE <<>>]]
    /\ UNCHANGED <<swap, enableSells, trades, req, botStatus, solBalance, needsAta, tokenBalance,
                   heliusApiKey, confirm, chainTx, fresh, etVars, decVars, resend, validQuote,
                   trade, hreq, signals, handler, signal_events, ingest_dedup, positions, mem>>

\* part_004, SELL: the document under the signal's key if it exists, else an
\* open position of the token (all signals here are for one token), else none
RefToClose(docs, idKey) ==
    IF idKey \in DOMAIN docs THEN <<idKey>>
    ELSE IF \E id \in DOMAIN docs : docs[id].status = "open"
    THEN <<CHOOSE id \in DOMAIN docs : docs[id].status = "open">>
    ELSE <<>>

\* part_004: BUY: positions/<idKey> is set to open; SELL: the document under
\* the key, if there is one, is updated to closed.  Then the trade is added.
P4Position(r) ==
    LET q == wreq[r]
    IN  /\ handler = "part_004"
        /\ q.pc = "position"
        /\ \E storeOk \in BOOLEAN :
             IF ~storeOk
             THEN /\ positions' = positions
                  /\ wreq' = [wreq EXCEPT ![r] = HookAnswer([q EXCEPT !.error = "set failed"], "500")]
             ELSE /\ positions' =
                       IF q.dir = "BUY"
                       THEN (q.signalId :> [status |-> "open", txid |-> q.execSig]) @@ positions
                       ELSE IF RefToClose(positions, q.signalId) # <<>>
                       THEN [positions EXCEPT ![RefToClose(positions, q.signalId)[1]] =
                                [status |-> "closed", txid |-> q.execSig]]
                       ELSE positions
                  /\ wreq' = [wreq EXCEPT ![r] = [q EXCEPT !.pc = "mark"]]
    /\ UNCHANGED <<swap, enableSells, trades, req, botStatus, solBalance, needsAta, tokenBalance,
                   heliusApiKey, confirm, chainTx, fresh, etVars, decVars, resend, validQuote,
                   trade, hreq, signals, handler, signal_events, ingest_dedup, mem>>

\* part_004: ingest_dedup/<idKey> is set and the request answered.
P4Mark(r) ==
    LET q == wreq[r]
    IN  /\ handler = "part_004"
        /\ q.pc = "mark"
        /\ \E setOk \in BOOLEAN :
             IF setOk
             THEN /\ ingest_dedup' = (q.signalId :> "nexgent_agent_tx") @@ ingest_dedup
                  /\ wreq' = [wreq EXCEPT ![r] = HookAnswer(q, "ok")]
             ELSE /\ ingest_dedup' = ingest_dedup
                  /\ wreq' = [wreq EXCEPT ![r] = HookAnswer([q EXCEPT !.error = "set failed"], "500")]
    /\ UNCHANGED <<swap, enableSells, trades, req, botStatus, solBalance, needsAta, tokenBalance,
                   heliusApiKey, confirm, chainTx, fresh, etVars, decVars, resend, validQuote,
                   trade, hreq, signals, handler, signal_events, positions, mem>>

\* ---- SpecGuard: two requests to one of the two handlers ----

GuardInit ==
    /\ swap = IdleSwap
    /\ enableSells \in BOOLEAN
    /\ signal_events = <<>>
    /\ trades = {}
    /\ req = <<>>
    /\ handler \in {"part_002", "part_004"}
    /\ botStatus = "RUNNING"
    /\ solBalance = 0
    /\ needsAta = FALSE
    /\ tokenBalance = 0
    /\ heliusApiKey = FALSE
    /\ trade = <<>>
    /\ positions = <<>>
    /\ hreq = <<>>
    /\ signals = <<>>
    /\ ingest_dedup = <<>>
    /\ confirm = IdleConfirm
    /\ chainTx = "none"
    /\ fresh = IdleFresh
    /\ EtIdle
    /\ DecIdle
    /\ resend = IdleResend
    /\ validQuote = IdleValidQuote
    /\ wreq \in [Reqs -> {NewHook(s, d) : s \in SignalIds, d \in Actions}]
    /\ mem = IdleMem

GuardNext ==
    \E r \in Reqs :
        \/ P2Receive(r)
        \/ P2IsProcessed(r)
        \/ P2MarkInProgress(r)
        \/ P2Skip(r)
        \/ P2ExecuteSwap(r)
        \/ P2Mirror(r)
        \/ P2Catch(r)
        \/ P4Receive(r)
        \/ P4DedupGet(r)
        \/ P4Raw(r)
        \/ P4ExecSwapAdapter(r)
        \/ P4Position(r)
        \/ P4Mark(r)

SpecGuard == GuardInit /\ [][GuardNext]_vars

SameSignal(a, b) == wreq[a].signalId = wreq[b].signalId /\ wreq[a].dir = wreq[b].dir

\* C31: of two requests with the same signal id and direction at most one
\* gets as far as calling the swap executor.
C31_ReadThenWriteGuardExecutesOnce ==
    \A a \in Reqs, b \in Reqs :
        (a # b /\ SameSignal(a, b)) => wreq[a].execCalls + wreq[b].execCalls <= 1

\* C36: in part_002, after a SELL was skipped because sells are disabled, a
\* request with the same signal id and direction that arrives later is not
\* answered as a duplicate, by the memory guard or by the store guard.
C36_SkippedSellCanBeRetried ==
    handler = "part_002" =>
        \A a \in Reqs, b \in Reqs :
            (SameSignal(a, b) /\ wreq[a].resp = "skipped" /\ a \in wreq[b].after) =>
                wreq[b].resp \notin {"duplicate memory", "duplicate db"}

\* C37: in part_004, a position document with status open exists for a BUY
\* signal only if the swap for that signal was executed successfully.
C37_OpenPositionOnlyAfterSwap ==
    handler = "part_004" =>
        \A id \in DOMAIN positions :
            positions[id].status = "open" => positions[id].txid # <<>>


(***************************************************************************)
(* The handlers that check getOpenPositionByToken before trading: the      *)
(* second route of src/index.ts, which first dedupes with the in-memory    *)
(* set processedSignals, and src/unnamed/part_009.  All signals are for    *)
(* one token.  processedSignals is kept as the sequence of its elements in *)
(* insertion order, the order in which a Set iterates.                     *)
(***************************************************************************)

\* the size above which processedSignals evicts (1000 in index.ts)
ProcessedCap == 2

\* eviction of the id inserted last instead of the one inserted first:
\* the set keeps its oldest ids and forgets the newest
EvictNewest(set) ==
    IF Len(set) > ProcessedCap THEN SubSeq(set, 1, Len(set) - 1) ELSE set
\* if (processedSignals.size > 1000) processedSignals.delete(<first value>)
Evict(set) ==
    IF Len(set) > ProcessedCap THEN Tail(set) ELSE set

Has(set, id) == \E i \in 1..Len(set) : set[i] = id

NewSignal(signalId, dir) ==
    [signalId |-> signalId, dir |-> dir, pc |-> "new", resp |-> "none", at |-> 0,
     openPosition |-> <<>>, execCalls |-> 0]

\* getOpenPositionByToken: an open document of the token, null when there is
\* none or when the query fails
getOpenPositionByToken(docs, readOk) ==
    IF readOk /\ \E id \in DOMAIN docs : docs[id].status = "open"
    THEN <<CHOOSE id \in DOMAIN docs : docs[id].status = "open">>
    ELSE <<>>

FourReqs == {1, 2, 3, 4}
Arrived(r) == wreq[r].pc # "new"

\* index.ts: the request arrives; the duplicate check, the insertion and the
\* eviction run without an await in between; the request is answered.
IxReceive(r) ==
    LET q == [wreq[r] EXCEPT !.at = Len(mem.accepted)]
    IN  /\ handler = "index"
        /\ q.pc = "new"
        /\ \A x \in FourReqs : x < r => Arrived(x)
        /\ IF Has(mem.processedSignals, q.signalId)
           THEN /\ wreq' = [wreq EXCEPT ![r] = [q EXCEPT !.pc = "done", !.resp = "duplicate"]]
                /\ mem' = mem
           ELSE /\ wreq' = [wreq EXCEPT ![r] = [q EXCEPT !.pc = "settings", !.resp = "accepted"]]
                /\ mem' = [mem EXCEPT
                             !.processedSignals = Evict(Append(@, q.signalId)),
                             !.accepted = Append(@, q.signalId)]
        /\ UNCHANGED <<swap, sigVars, handler, botStatus, solBalance, needsAta, tokenBalance,
                       heliusApiKey, confirm, chainTx, fresh, etVars, decVars, resend,
                       validQuote, trade, hreq, signals, ingest_dedup, positions>>

\* part_009: the request arrives and getBotSettings is called.
P9Receive(r) ==
    LET q == wreq[r]
    IN  /\ handler = "part_009"
        /\ q.pc = "new"
        /\ \A x \in FourReqs : x < r => Arrived(x)
        /\ wreq' = [wreq EXCEPT ![r] = [q EXCEPT !.pc = "settings"]]
        /\ UNCHANGED <<swap, sigVars, handler, botStatus, solBalance, needsAta, tokenBalance,
                       heliusApiKey, confirm, chainTx, fresh, etVars, decVars, resend,
                       validQuote, trade, hreq, signals, ingest_dedup, positions, mem>>

\* getBotSettings settles: the signal is ignored unless botStatus is RUNNING
\* (part_009 answers here); getOpenPositionByToken is called.
IxSettings(r) ==
    LET q == [wreq[r] EXCEPT !.resp = IF handler = "part_009" THEN "accepted" ELSE @]
    IN  /\ q.pc = "settings"
        /\ \E readOk \in BOOLEAN :
             wreq' = [wreq EXCEPT ![r] =
                 IF ~readOk \/ botStatus # "RUNNING"
                 THEN [q EXCEPT !.pc = "done", !.resp = IF handler = "part_009" THEN "ignored" ELSE @]
                 ELSE [q EXCEPT !.pc = "openPosition"]]
        /\ UNCHANGED <<swap, sigVars, handler, botStatus, solBalance, needsAta, tokenBalance,
                       heliusApiKey, confirm, chainTx, fresh, etVars, decVars, resend,
                       validQuote, trade, hreq, signals, ingest_dedup, positions, mem>>

\* getOpenPositionByToken settles: a BUY is ignored when a position is open,
\* a SELL when none is; executeTrade is called otherwise.
IxOpenPosition(r) ==
    LET q == wreq[r]
    IN  /\ q.pc = "openPosition"
        /\ \E readOk \in BOOLEAN, sizeOk \in BOOLEAN :
             LET open == getOpenPositionByToken(positions, readOk)
             IN  wreq' = [wreq EXCEPT ![r] =
                     IF (q.dir = "BUY") = (open # <<>>)
                     THEN [q EXCEPT !.pc = "done", !.openPosition = open]
                     ELSE IF handler = "part_009" /\ ~sizeOk
                     THEN [q EXCEPT !.pc = "done", !.openPosition = open]
                     ELSE [q EXCEPT !.pc = "executeTrade", !.openPosition = open,
                                    !.execCalls = @ + 1]]
        /\ UNCHANGED <<swap, sigVars, handler, botStatus, solBalance, needsAta, tokenBalance,
                       heliusApiKey, confirm, chainTx, fresh, etVars, decVars, resend,
                       validQuote, trade, hreq, signals, ingest_dedup, positions, mem>>

\* executeTrade settles.  A BUY that swapped has written its open position
\* (managePosition inside executeTrade); after a SELL that returned,
\* closePosition is called.
IxExecuteTrade(r) ==
    LET q == wreq[r]
    IN  /\ q.pc = "executeTrade"
        /\ \E ok \in BOOLEAN :
             /\ positions' =
                  IF ok /\ q.dir = "BUY"
                  THEN (ToString(r) :> [status |-> "open"]) @@ positions
                  ELSE positions
             /\ wreq' = [wreq EXCEPT ![r] =
                    IF ok /\ q.dir = "SELL" THEN [q EXCEPT !.pc = "closePosition"]
                    ELSE [q EXCEPT !.pc = "done"]]
        /\ UNCHANGED <<swap, sigVars, handler, botStatus, solBalance, needsAta, tokenBalance,
                       heliusApiKey, confirm, chainTx, fresh, etVars, decVars, resend,
                       validQuote, trade, hreq, signals, ingest_dedup, mem>>

\* closePosition(openPosition.id, ...): an update, its failure is swallowed
IxClosePosition(r) ==
    LET q == wreq[r]
    IN  /\ q.pc = "closePosition"
        /\ \E writeOk \in BOOLEAN :
             positions' = IF writeOk
                          THEN [positions EXCEPT ![q.openPosition[1]] = [status |-> "closed"]]
                          ELSE positions
        /\ wreq' = [wreq EXCEPT ![r] = [q EXCEPT !.pc = "done"]]
        /\ UNCHANGED <<swap, sigVars, handler, botStatus, solBalance, needsAta, tokenBalance,
                       heliusApiKey, confirm, chainTx, fresh, etVars, decVars, resend,
                       validQuote, trade, hreq, signals, ingest_dedup, mem>>

\* ---- SpecProcessed: four requests, arriving in order ----

ProcessedIds == {"a", "b", "c", "d"}
\* a part_009 payload carries no signal id: every request is a signal of its own
OwnId == <<"a", "b", "c", "d">>

ProcessedInit ==
    /\ swap = IdleSwap
    /\ SigIdle
    /\ handler \in {"index", "part_009"}
    /\ botStatus \in BotStatuses
    /\ solBalance = 0
    /\ needsAta = FALSE
    /\ tokenBalance = 0
    /\ heliusApiKey = FALSE
    /\ trade = <<>>
    /\ positions = <<>>
    /\ hreq = <<>>
    /\ signals = <<>>
    /\ ingest_dedup = <<>>
    /\ confirm = IdleConfirm
    /\ chainTx = "none"
    /\ fresh = IdleFresh
    /\ EtIdle
    /\ DecIdle
    /\ resend = IdleResend
    /\ validQuote = IdleValidQuote
    /\ wreq \in [FourReqs -> {NewSignal(s, d) : s \in ProcessedIds, d \in Actions}]
    /\ \A r \in FourReqs :
          /\ handler = "part_009" => wreq[r].signalId = OwnId[r]
          /\ r > 2 => wreq[r].dir = "BUY"
    /\ wreq[1].signalId = "a"
    /\ mem = IdleMem

ProcessedNext ==
    \E r \in FourReqs :
        \/ IxReceive(r)
        \/ P9Receive(r)
        \/ IxSettings(r)
        \/ IxOpenPosition(r)
        \/ IxExecuteTrade(r)
        \/ IxClosePosition(r)

SpecProcessed == ProcessedInit /\ [][ProcessedNext]_vars

\* C32: while no position of the token has been closed, of the BUY signals
\* with distinct signal ids at most one gets as far as executeTrade.
C32_TokenBoughtAtMostOnce ==
    (\A id \in DOMAIN positions : positions[id].status # "closed") =>
        \A a \in FourReqs, b \in FourReqs :
            (a # b /\ wreq[a].signalId # wreq[b].signalId
                /\ wreq[a].dir = "BUY" /\ wreq[b].dir = "BUY") =>
                wreq[a].execCalls + wreq[b].execCalls <= 1

\* the last n elements of a sequence (all of it when it is shorter)
LastOf(seq, n) == SubSeq(seq, Max(1, Len(seq) - n + 1), Len(seq))

\* C40: in the index.ts handler, processedSignals never holds more than the
\* cap (1000 in the code, ProcessedCap here) once a request has been
\* handled; it holds exactly the most recently accepted ids, so eviction
\* removed the oldest one each time; and a request is answered as a duplicate
\* exactly when its id is among the cap ids accepted last before it arrived,
\* that is until cap further distinct ids have been accepted after it.
C40_ProcessedSignalsBoundedOldestEvicted ==
    handler = "index" =>
        /\ Len(mem.processedSignals) <= ProcessedCap
        /\ mem.processedSignals = LastOf(mem.accepted, ProcessedCap)
        /\ \A r \in FourReqs :
              Arrived(r) =>
                  /\ wreq[r].resp \in {"accepted", "duplicate"}
                  /\ wreq[r].resp = "duplicate" <=>
                         Has(LastOf(SubSeq(mem.accepted, 1, wreq[r].at), ProcessedCap),
                             wreq[r].signalId)

\* An id was evicted, and a request carrying it again was accepted, after an
\* earlier duplicate had been refused.
C40_Witness ==
    /\ handler = "index"
    /\ Len(mem.accepted) > ProcessedCap
    /\ \E r \in FourReqs : wreq[r].resp = "duplicate"
    /\ Len(mem.processedSignals) = ProcessedCap

====
